---- MODULE Spec2Model ----
(***************************************************************************)
(* Checkpointed OpenAlex batch runner of the top2percent repository:       *)
(*   scripts/data_collection/fetch_openalex_comprehensive.py               *)
(*       (process_sample, main)                                            *)
(*   scripts/python/match_replicates_to_openalex.py                        *)
(*       (process_replicate)                                               *)
(* Both scripts share search_openalex_author and fetch_all_works; they     *)
(* differ in the keys of the rows they append and in how the checkpoint    *)
(* file is cleaned up.  The variable script selects the one that runs.     *)
(*                                                                         *)
(* The answers of the remote service are fixed when first requested: the   *)
(* answer to the search of a roster row and the works server of its author *)
(* stay the same for every row whose result is kept.                       *)
(* An operator interrupt ends the process and a later start of the same    *)
(* script over the same roster follows it; files survive, memory does not. *)
(***************************************************************************)
EXTENDS Integers, Sequences, FiniteSets, TLC

----------------------------------------------------------------------------
(* Bounds of the model *)

\* number of rows of the input roster, len(sample_df)
RosterLen == 4

\* CHECKPOINT_INTERVAL of both scripts (50 in the source), scaled down
CHECKPOINT_INTERVAL == 2

\* per_page of fetch_all_works (200 in the source), scaled down
per_page == 2

\* operator interrupts in one behaviour
MaxInterrupts == 1

\* the most works a works server holds or reports
MaxHeld == 5

\* the last page of a works server that can fail or come back short
MaxFaultPage == 3

\* the longest work list given to calculate_metrics on its own
MaxWorks == 3

\* the most parts a publisher name given to classify_publisher is made of
MaxParts == 2

\* the most calls of search_openalex_author made against one server
MaxCalls == 2

\* n_replicates of match_all_replicates (5 in the script)
n_replicates == 4

\* the longest list given to calculate_h_index on its own
MaxCounts == 4

\* the largest citation count in such a list
MaxCount == 4

\* len(df_matched) of fetch_all_550_researchers.py (550), scaled down
Matched == 4

\* the progress file is written every PROGRESS_EVERY rows (10 in the script)
PROGRESS_EVERY == 2

\* the results file is written every SAVE_EVERY successes (50 in the script)
SAVE_EVERY == 3

----------------------------------------------------------------------------
(* Values *)

Scripts == {"sample", "replicate"}

\* None, as returned by search_openalex_author
NoAuthor == 0

\* an exception that leaves search_openalex_author
Raised == -2

\* an empty CSV cell, read back by pandas as NaN
NaN == -1

\* not yet requested from the remote service
Unset == "unset"

\* what one GET /authors can do: requests.get raises (timeout),
\* raise_for_status raises (non-2xx), response.json raises (malformed),
\* 'results' is empty, 'results' has at least one candidate
SearchResponses == {"timeout", "http_error", "malformed", "empty", "found"}

\* the responses the remote service can give for a roster name it holds an
\* author for ("found") and for one that it never resolves ("absent")
ResponsesOf(class) ==
    IF class = "found" THEN {"found"} ELSE SearchResponses \ {"found"}

\* a works server: actual = number of works it holds, count = meta.count it
\* reports, failPage = the page whose request fails (0: none), shortPage =
\* the page that comes back with only shortLen of its works (0: none)
NoServer == [actual |-> NaN, count |-> NaN, failPage |-> NaN,
             shortPage |-> NaN, shortLen |-> NaN]

\* the works servers the batch runner meets: an author without works, a
\* failure on the first page, a complete multi-page listing, a failure on
\* the second page
BatchServers ==
    { [actual |-> 0,            count |-> 0,            failPage |-> 0,
       shortPage |-> 0, shortLen |-> 0],
      [actual |-> per_page + 1, count |-> per_page + 1, failPage |-> 1,
       shortPage |-> 0, shortLen |-> 0],
      [actual |-> per_page + 1, count |-> per_page + 1, failPage |-> 0,
       shortPage |-> 0, shortLen |-> 0],
      [actual |-> per_page + 1, count |-> per_page + 1, failPage |-> 2,
       shortPage |-> 0, shortLen |-> 0] }

\* the works servers fetch_all_works is run against on its own: the total
\* a server reports need not be the number of works it holds, any one of
\* its first pages may fail, and any one may come back short or empty
WorksServers ==
    { srv \in [actual : 0 .. MaxHeld, count : 0 .. (MaxHeld + 1),
               failPage : 0 .. MaxFaultPage, shortPage : 0 .. MaxFaultPage,
               shortLen : 0 .. (per_page - 1)] :
        srv.shortPage = 0 => srv.shortLen = 0 }

Min(a, b) == IF a <= b THEN a ELSE b

\* roster indices, 0-based as in range(start_idx, len(sample_df))
RosterIdx == 0 .. (RosterLen - 1)

\* row['sample_id'] of roster row idx
SampleId(i) == i + 1

VARIABLES
    script,       \* which of the two scripts runs
    pc,           \* position of the running process
    interrupts,   \* operator interrupts so far
    cpExists,     \* os.path.exists(checkpoint_file)
    checkpoint,   \* rows of the checkpoint file
    outExists,    \* the final output file exists
    output,       \* rows of the final output file
    results,      \* the in-memory list results
    start_idx,    \* start_idx of the current run
    idx,          \* loop variable: roster rows before idx are processed
    author_data,  \* result of search_openalex_author for row idx
    all_works,    \* all_works of the running fetch_all_works
    page,         \* page of the running fetch_all_works
    searchResp,   \* remote: does the search of each roster row find an author
    response,     \* what the latest GET /authors of the current run did
    worksSrv,     \* remote: the works server of each roster row's author
    searches,     \* GET /authors issued per roster row by the current run
    worksReqs,    \* GET /works issued per roster row by the current run
    appended,     \* results.append calls per roster row in the current run
    sleeps,       \* time.sleep(DELAY_BETWEEN_REQUESTS) calls per roster row
    lastEvent,    \* what the latest step did to the checkpoint file
    cpAtStart,    \* rows in the checkpoint file when the current run started
    lost,         \* an interrupt discarded rows processed after the last write
    atFlush,      \* at every interrupt so far exactly m*K rows were processed
    publisher_name,   \* the argument of classify_publisher called on its own
    publisher_group,  \* what that call returned
    metrics,          \* what calculate_metrics called on its own returned
    call,             \* the function called on its own: arguments and result
    program           \* the script run on its own, apart from the batch runner

\* the variables of what is run on its own, apart from the batch runner
apart == << call, program >>

\* the variables of the batch runner but for the position of the process
atRest == << script, interrupts, cpExists, checkpoint, outExists, output,
             results, start_idx, idx, author_data, all_works, page,
             searchResp, response, worksSrv, searches, worksReqs, appended,
             sleeps, lastEvent, cpAtStart, lost, atFlush,
             publisher_name, publisher_group, metrics >>

\* the variables of the batch runner
batch == << script, pc, interrupts, cpExists, checkpoint, outExists, output,
            results, start_idx, idx, author_data, all_works, page,
            searchResp, response, worksSrv, searches, worksReqs, appended,
            sleeps, lastEvent, cpAtStart, lost, atFlush,
            publisher_name, publisher_group, metrics >>

vars == << pc, batch, apart >>

----------------------------------------------------------------------------
(* pandas *)

RECURSIVE Columns(_)
\* the columns of pd.DataFrame(rows): the union of the keys of the dicts
Columns(rows) ==
    IF rows = << >> THEN {}
    ELSE (DOMAIN Head(rows)) \cup Columns(Tail(rows))

\* pd.DataFrame(rows), the table that to_csv writes: every row gets every
\* column, and a key a dict lacks becomes NaN (an empty cell of the file).
\* pd.read_csv(file).to_dict('records') gives these rows back as dicts that
\* have every column of the file as a key.  rs are the rows and cols the
\* columns of the table, each worked out once.
DataFrame(rows) ==
    CHOOSE df \in
        { [k \in 1 .. Len(rs) |->
            [c \in cols |-> IF c \in DOMAIN rs[k] THEN rs[k][c] ELSE NaN]]
          : rs \in {rows}, cols \in {Columns(rows)} } : TRUE

IsPrefix(s, t) ==
    /\ Len(s) <= Len(t)
    /\ \A k \in 1 .. Len(s) : s[k] = t[k]

----------------------------------------------------------------------------
(* classify_publisher *)

\* A text is the sequence of its characters.  None is no text at all.
NoName == << "<None>" >>

\* the text 'Unknown', the default of source.get('host_organization_name')
UnknownName == << "U", "n", "k", "n", "o", "w", "n" >>

UpperCase ==
    << "A", "B", "C", "D", "E", "F", "G", "H", "I", "J", "K", "L", "M",
       "N", "O", "P", "Q", "R", "S", "T", "U", "V", "W", "X", "Y", "Z" >>

LowerCase ==
    << "a", "b", "c", "d", "e", "f", "g", "h", "i", "j", "k", "l", "m",
       "n", "o", "p", "q", "r", "s", "t", "u", "v", "w", "x", "y", "z" >>

\* variant: the text is compared as it is written
lower_Identity(text) == text

\* str.lower()
lower(text) ==
    [k \in 1 .. Len(text) |->
        IF \E n \in 1 .. Len(UpperCase) : UpperCase[n] = text[k]
        THEN LowerCase[CHOOSE n \in 1 .. Len(UpperCase) : UpperCase[n] = text[k]]
        ELSE text[k]]

\* variant in publisher_lower: the variant is a substring of the text
Contains(text, variant) ==
    \E i \in 0 .. (Len(text) - Len(variant)) :
        SubSeq(text, i + 1, i + Len(variant)) = variant

\* the groups in the order the dict declares them, which is the order in
\* which PUBLISHER_GROUPS.items() gives them
PUBLISHER_GROUPS == <<
    [ group |-> "Elsevier",
      variants |-> <<
            << "e", "l", "s", "e", "v", "i", "e", "r" >>,
            << "c", "e", "l", "l", " ", "p", "r", "e", "s", "s" >>,
            << "t", "h", "e", " ", "l", "a", "n", "c", "e", "t" >>,
            << "a", "c", "a", "d", "e", "m", "i", "c", " ", "p", "r", "e",
               "s", "s" >> >> ],
    [ group |-> "Wiley",
      variants |-> <<
            << "w", "i", "l", "e", "y" >>,
            << "j", "o", "h", "n", " ", "w", "i", "l", "e", "y" >>,
            << "w", "i", "l", "e", "y", "-", "b", "l", "a", "c", "k", "w",
               "e", "l", "l" >>,
            << "b", "l", "a", "c", "k", "w", "e", "l", "l" >> >> ],
    [ group |-> "Springer Nature",
      variants |-> <<
            << "s", "p", "r", "i", "n", "g", "e", "r" >>,
            << "n", "a", "t", "u", "r", "e" >>,
            << "p", "a", "l", "g", "r", "a", "v", "e" >>,
            << "s", "p", "r", "i", "n", "g", "e", "r", " ", "n", "a", "t",
               "u", "r", "e" >>,
            << "b", "m", "c" >> >> ],
    [ group |-> "Taylor & Francis",
      variants |-> <<
            << "t", "a", "y", "l", "o", "r" >>,
            << "f", "r", "a", "n", "c", "i", "s" >>,
            << "r", "o", "u", "t", "l", "e", "d", "g", "e" >>,
            << "c", "r", "c", " ", "p", "r", "e", "s", "s" >>,
            << "i", "n", "f", "o", "r", "m", "a" >> >> ],
    [ group |-> "PLOS",
      variants |-> <<
            << "p", "l", "o", "s" >>,
            << "p", "u", "b", "l", "i", "c", " ", "l", "i", "b", "r", "a",
               "r", "y", " ", "o", "f", " ", "s", "c", "i", "e", "n", "c",
               "e" >> >> ],
    [ group |-> "Frontiers",
      variants |-> <<
            << "f", "r", "o", "n", "t", "i", "e", "r", "s" >> >> ],
    [ group |-> "MDPI",
      variants |-> <<
            << "m", "d", "p", "i" >> >> ],
    [ group |-> "Oxford",
      variants |-> <<
            << "o", "x", "f", "o", "r", "d", " ", "u", "n", "i", "v", "e",
               "r", "s", "i", "t", "y", " ", "p", "r", "e", "s", "s" >>,
            << "o", "u", "p" >> >> ],
    [ group |-> "Cambridge",
      variants |-> <<
            << "c", "a", "m", "b", "r", "i", "d", "g", "e", " ", "u", "n",
               "i", "v", "e", "r", "s", "i", "t", "y", " ", "p", "r", "e",
               "s", "s" >>,
            << "c", "u", "p" >> >> ],
    [ group |-> "IEEE",
      variants |-> <<
            << "i", "e", "e", "e" >>,
            << "i", "n", "s", "t", "i", "t", "u", "t", "e", " ", "o", "f",
               " ", "e", "l", "e", "c", "t", "r", "i", "c", "a", "l" >> >> ],
    [ group |-> "ACM",
      variants |-> <<
            << "a", "c", "m" >>,
            << "a", "s", "s", "o", "c", "i", "a", "t", "i", "o", "n", " ",
               "f", "o", "r", " ", "c", "o", "m", "p", "u", "t", "i", "n",
               "g", " ", "m", "a", "c", "h", "i", "n", "e", "r", "y" >> >> ],
    [ group |-> "ACS",
      variants |-> <<
            << "a", "m", "e", "r", "i", "c", "a", "n", " ", "c", "h", "e",
               "m", "i", "c", "a", "l", " ", "s", "o", "c", "i", "e", "t",
               "y" >>,
            << "a", "c", "s", " ", "p", "u", "b", "l", "i", "c", "a", "t",
               "i", "o", "n", "s" >> >> ] >>

\* any(variant in publisher_lower for variant in variants) of group g
AnyVariant(text, g) ==
    \E v \in 1 .. Len(PUBLISHER_GROUPS[g].variants) :
        Contains(text, PUBLISHER_GROUPS[g].variants[v])

RECURSIVE FirstMatch_Last(_, _)
\* variant: a later group replaces an earlier one
FirstMatch_Last(text, g) ==
    IF g > Len(PUBLISHER_GROUPS) THEN "Other"
    ELSE LET later == FirstMatch_Last(text, g + 1)
         IN  IF later # "Other" THEN later
             ELSE IF AnyVariant(text, g) THEN PUBLISHER_GROUPS[g].group
             ELSE "Other"

RECURSIVE FirstMatch(_, _)
\* the for loop over the groups from group g on: the first group one of
\* whose variants is in the text, 'Other' when the loop ends
FirstMatch(text, g) ==
    IF g > Len(PUBLISHER_GROUPS) THEN "Other"
    ELSE IF AnyVariant(text, g) THEN PUBLISHER_GROUPS[g].group
    ELSE FirstMatch(text, g + 1)

\* classify_publisher(publisher_name)
classify_publisher(name) ==
    IF name = NoName \/ name = << >> \/ name = UnknownName THEN "Unknown"
    ELSE FirstMatch(lower(name), 1)

----------------------------------------------------------------------------
(* The remote service *)

\* variant: without the except clause, the exception leaves the function
search_openalex_author_Raise(i, r) ==
    IF r = "found" THEN SampleId(i)
    ELSE IF r = "empty" THEN NoAuthor ELSE Raised

\* search_openalex_author(name, institution): any exception and an empty
\* 'results' give None, otherwise results[0].  The author found for roster
\* row i is identified by SampleId(i); institution is not used.
search_openalex_author(i, r) ==
    IF r = "found" THEN SampleId(i) ELSE NoAuthor

\* variant: a timeout is retried once
SearchRequests_Retry(r) == IF r = "timeout" THEN 2 ELSE 1

\* the GET /authors requests that one call of search_openalex_author issues
SearchRequests(r) == 1

\* variant: only the type 'book' counts as a book
BookTypes_OnlyBook == {"book"}

\* work_type in ['book', 'book-chapter', 'monograph', 'edited-book']
BookTypes == {"book", "book-chapter", "monograph", "edited-book"}

\* the kinds of work objects the remote service holds: type, cited_by_count,
\* primary_location.source.host_organization_name and open_access.is_oa
Catalogue == <<
    [type |-> "article", cited_by_count |-> 2, is_oa |-> FALSE,
     host_organization_name |-> << "E", "l", "s", "e", "v", "i", "e", "r", " ", "B", "V" >>],
    [type |-> "book-chapter", cited_by_count |-> 1, is_oa |-> FALSE,
     host_organization_name |-> NoName],
    [type |-> "article", cited_by_count |-> 0, is_oa |-> TRUE,
     host_organization_name |-> << "P", "L", "O", "S" >>],
    [type |-> "monograph", cited_by_count |-> 2, is_oa |-> FALSE,
     host_organization_name |-> << "W", "i", "l", "e", "y" >>],
    [type |-> "article", cited_by_count |-> 1, is_oa |-> TRUE,
     host_organization_name |-> << "S", "a", "g", "e" >>],
    [type |-> "dataset", cited_by_count |-> 0, is_oa |-> TRUE,
     host_organization_name |-> << "S", "p", "r", "i", "n", "g", "e", "r" >>] >>

\* the k-th work object a works server holds
RawWork(k) ==
    LET kind == Catalogue[((k - 1) % Len(Catalogue)) + 1]
    IN  [id |-> k, type |-> kind.type,
         cited_by_count |-> kind.cited_by_count, is_oa |-> kind.is_oa,
         host_organization_name |-> kind.host_organization_name]

\* the 'results' of GET /works?page=p of a server: the work objects
\* (p-1)*per_page+1 .. p*per_page that the server holds, cut to shortLen
\* on its short page
PageResults(srv, p) ==
    LET lo == Min((p - 1) * per_page, srv.actual)
        hi == Min(p * per_page, srv.actual)
        n  == IF p = srv.shortPage THEN Min(srv.shortLen, hi - lo)
              ELSE hi - lo
    IN  [k \in 1 .. n |-> RawWork(lo + k)]

\* the dict that the for loop over 'results' appends for one work object
Ingest(work) ==
    [work_id |-> work.id,
     type |-> work.type,
     is_book |-> work.type \in BookTypes,
     cited_by_count |-> work.cited_by_count,
     publisher_group |-> classify_publisher(work.host_organization_name),
     is_oa |-> work.is_oa]

\* Ingest, worked out once for each kind of work object
IngestedKind == [n \in DOMAIN Catalogue |-> Ingest(RawWork(n))]

\* the dicts appended for the work objects of one page
IngestAll(res) ==
    [k \in 1 .. Len(res) |->
        [IngestedKind[((res[k].id - 1) % Len(Catalogue)) + 1]
            EXCEPT !.work_id = res[k].id]]

\* variant: the test looks one page ahead
LastPage_OffByOne(srv, p) == (p + 1) * per_page >= srv.count

\* if page * per_page >= count: break
LastPage(srv, p) == p * per_page >= srv.count

\* variant: a failed page request discards the pages before it
FetchStep_DropOnFail(srv, works, p) ==
    LET res == PageResults(srv, p)
    IN  IF srv.failPage = p
        THEN [works |-> << >>, page |-> p, done |-> TRUE]
        ELSE IF res = << >>
        THEN [works |-> works, page |-> p, done |-> TRUE]
        ELSE [works |-> works \o IngestAll(res),
              page |-> IF LastPage(srv, p) THEN p ELSE p + 1,
              done |-> LastPage(srv, p)]

\* variant: a failed page request is repeated
FetchStep_Retry(srv, works, p) ==
    LET res == PageResults(srv, p)
    IN  IF srv.failPage = p
        THEN [works |-> works, page |-> p, done |-> FALSE]
        ELSE IF res = << >>
        THEN [works |-> works, page |-> p, done |-> TRUE]
        ELSE [works |-> works \o IngestAll(res),
              page |-> IF LastPage(srv, p) THEN p ELSE p + 1,
              done |-> LastPage(srv, p)]

\* one iteration of the while True loop of fetch_all_works: the request of
\* page p, with all_works = works before it; done = the loop is left
FetchStep(srv, works, p) ==
    LET res == PageResults(srv, p)
    IN  IF srv.failPage = p
        THEN \* except Exception: break
             [works |-> works, page |-> p, done |-> TRUE]
        ELSE IF res = << >>
        THEN \* if not results: break
             [works |-> works, page |-> p, done |-> TRUE]
        ELSE IF LastPage(srv, p)
        THEN [works |-> works \o IngestAll(res),
              page |-> p, done |-> TRUE]
        ELSE [works |-> works \o IngestAll(res),
              page |-> p + 1, done |-> FALSE]

RECURSIVE FetchLoop(_, _, _)
FetchLoop(srv, works, p) ==
    LET step == FetchStep(srv, works, p)
    IN  IF step.done THEN step.works
        ELSE FetchLoop(srv, step.works, step.page)

\* fetch_all_works(author_id) against the works server of the author
fetch_all_works(srv) == FetchLoop(srv, << >>, 1)

----------------------------------------------------------------------------
(* calculate_metrics *)

RECURSIVE Gcd(_, _)
Gcd(a, b) == IF b = 0 THEN a ELSE Gcd(b, a % b)

RECURSIVE LcmUpTo(_)
LcmUpTo(n) ==
    IF n <= 1 THEN 1
    ELSE LET m == LcmUpTo(n - 1) IN (m * n) \div Gcd(m, n)

\* the largest cited_by_count of a work object
MaxCited ==
    CHOOSE c \in { Catalogue[k].cited_by_count : k \in DOMAIN Catalogue } :
        \A k \in DOMAIN Catalogue : Catalogue[k].cited_by_count <= c

\* A percentage is kept exactly, as a whole number of 1/PctUnit percent:
\* PctUnit is a multiple of every possible denominator (a number of works
\* or a sum of citations).  The rounding of the float division is left out.
PctUnit == LcmUpTo(MaxCited * (MaxWorks + per_page + 1))

\* n / d * 100 if d > 0 else 0
Percent(n, d) == IF d > 0 THEN (n * 100 * PctUnit) \div d ELSE 0

RECURSIVE SumCited(_)
\* df['cited_by_count'].sum()
SumCited(works) ==
    IF works = << >> THEN 0
    ELSE Head(works).cited_by_count + SumCited(Tail(works))

\* df[df['publisher_group'] == group]
OfGroup(works, group) == SelectSeq(works, LAMBDA w : w.publisher_group = group)

\* articles = df[df['is_book'] == False]
Articles(works) == SelectSeq(works, LAMBDA w : w.is_book = FALSE)

\* if not works: return {...}.  The sample script returns the two totals,
\* the replicate script every field but publisher_counts, all zero
EmptyMetrics ==
    IF script = "sample"
    THEN [total_works |-> 0, total_citations |-> 0]
    ELSE [total_works |-> 0, total_citations |-> 0, books_count |-> 0,
          books_pct |-> 0, articles_count |-> 0, oa_count |-> 0,
          oa_pct |-> 0, elsevier_count |-> 0, elsevier_pct |-> 0,
          elsevier_citations |-> 0, elsevier_citations_pct |-> 0,
          wiley_count |-> 0, wiley_pct |-> 0, springer_count |-> 0,
          springer_pct |-> 0, plos_count |-> 0, frontiers_count |-> 0,
          oa_publisher_count |-> 0, oa_publisher_pct |-> 0]

\* variant: the totals depend on how often the script was started
calculate_metrics_RunDependent(works) ==
    [total_works |-> Len(works) + interrupts,
     total_citations |-> SumCited(works)]

\* calculate_metrics(works); publisher_counts, the JSON text of the value
\* counts that only the sample script adds, is left out
calculate_metrics(works) ==
    IF works = << >> THEN EmptyMetrics
    ELSE
    LET total_works == Len(works)
        total_citations == SumCited(works)
        books == SelectSeq(works, LAMBDA w : w.is_book = TRUE)
        articles == Articles(works)
        oa_works == SelectSeq(works, LAMBDA w : w.is_oa = TRUE)
        elsevier_works == OfGroup(works, "Elsevier")
        elsevier_count == Len(elsevier_works)
        elsevier_citations == SumCited(elsevier_works)
        wiley_count == Len(OfGroup(works, "Wiley"))
        springer_count == Len(OfGroup(works, "Springer Nature"))
        plos_count == Len(OfGroup(works, "PLOS"))
        frontiers_count == Len(OfGroup(works, "Frontiers"))
        oa_publisher_count ==
            plos_count + frontiers_count + Len(OfGroup(works, "MDPI"))
    IN  [total_works |-> total_works,
         total_citations |-> total_citations,
         books_count |-> Len(books),
         books_pct |-> Percent(Len(books), total_works),
         articles_count |-> Len(articles),
         oa_count |-> Len(oa_works),
         oa_pct |-> Percent(Len(oa_works), total_works),
         elsevier_count |-> elsevier_count,
         elsevier_pct |-> Percent(elsevier_count, total_works),
         elsevier_citations |-> elsevier_citations,
         elsevier_citations_pct |->
             Percent(elsevier_citations, total_citations),
         wiley_count |-> wiley_count,
         wiley_pct |-> Percent(wiley_count, total_works),
         springer_count |-> springer_count,
         springer_pct |-> Percent(springer_count, total_works),
         plos_count |-> plos_count,
         frontiers_count |-> frontiers_count,
         oa_publisher_count |-> oa_publisher_count,
         oa_publisher_pct |-> Percent(oa_publisher_count, total_works)]

----------------------------------------------------------------------------
(* The rows appended to results *)

\* variant: the not-found row is flagged as found
NotFoundRow_Found(i) ==
    [sample_id |-> SampleId(i), openalex_found |-> TRUE,
     match_quality |-> "not_found"]

\* the row of a researcher that was not found
NotFoundRow(i) ==
    IF script = "sample"
    THEN [sample_id |-> SampleId(i), openalex_found |-> FALSE,
          match_quality |-> "not_found"]
    ELSE [sample_id |-> SampleId(i), openalex_found |-> FALSE,
          match_quality |-> "not_found", total_works |-> 0,
          total_citations |-> 0, books_count |-> 0, books_pct |-> 0,
          articles_count |-> 0, oa_count |-> 0, oa_pct |-> 0,
          elsevier_count |-> 0, elsevier_pct |-> 0]

\* variant: a failed first works page is recorded under a quality of its own
NoWorksRow_FetchFailed(i, author) ==
    [sample_id |-> SampleId(i), openalex_found |-> TRUE,
     openalex_id |-> author, openalex_pubs |-> 0, total_works |-> 0,
     match_quality |-> IF worksSrv[i].failPage = 1
                       THEN "fetch_failed" ELSE "found_no_works"]

\* the row of a researcher that was found and has no works
NoWorksRow(i, author) ==
    IF script = "sample"
    THEN [sample_id |-> SampleId(i), openalex_found |-> TRUE,
          openalex_id |-> author, openalex_pubs |-> 0,
          match_quality |-> "found_no_works"]
    ELSE [sample_id |-> SampleId(i), openalex_found |-> TRUE,
          openalex_id |-> author, match_quality |-> "found_no_works",
          total_works |-> 0, total_citations |-> 0, books_count |-> 0,
          books_pct |-> 0, articles_count |-> 0, oa_count |-> 0,
          oa_pct |-> 0, elsevier_count |-> 0, elsevier_pct |-> 0]

\* the row of a researcher whose works were aggregated: the keys of the
\* run and **metrics
GoodRow(i, author, works) ==
    LET m == calculate_metrics(works)
    IN  m @@ [sample_id |-> SampleId(i), openalex_found |-> TRUE,
              openalex_id |-> author, openalex_pubs |-> m.total_works,
              openalex_citations |-> m.total_citations,
              match_quality |-> "good"]

----------------------------------------------------------------------------
(* The process *)

ZeroCount == [i \in RosterIdx |-> 0]

\* no function is called on its own
NoCall == << >>

\* no script is run on its own
NoProgram == << >>

\* None, as returned by fetch_author_metrics
NoMetrics == [none |-> TRUE]

\* no progress file
NoProgress == -1

\* main has not returned
NoExit == -1

\* nothing is run apart from the batch runner
Idle == call = NoCall /\ program = NoProgram

\* the rows of the checkpoint file, none when there is no file
CheckpointRows == IF cpExists THEN checkpoint ELSE << >>

\* the leading roster rows whose results are in a file
RowsOnDisk ==
    IF outExists /\ Len(output) > Len(CheckpointRows)
    THEN Len(output) ELSE Len(CheckpointRows)

\* variant: the resumed run starts at the first roster row again
ResumeIndex_Zero(rows) == 0

\* variant: the resumed run starts one row after the loaded rows
ResumeIndex_SkipOne(rows) == IF rows = << >> THEN 0 ELSE Len(rows) + 1

\* start_idx = len(results) after the checkpoint was loaded
ResumeIndex(rows) == Len(rows)

\* if (idx + 1) % CHECKPOINT_INTERVAL == 0
CheckpointDue(i) == (i + 1) % CHECKPOINT_INTERVAL = 0

\* variant: to_csv without index=False, the row index becomes a column
CheckpointContent_WithIndex(rows) ==
    LET df == DataFrame(rows)
    IN  [k \in 1 .. Len(df) |->
            [c \in (DOMAIN df[k]) \cup {"Unnamed: 0"} |->
                IF c = "Unnamed: 0" THEN k - 1 ELSE df[k][c]]]

\* variant: only the rows of the current run are written
CheckpointContent_Tail(rows) ==
    DataFrame(SubSeq(rows, start_idx + 1, Len(rows)))

\* variant: the loop stops one roster row early
LoopRunning_OneShort(i) == i < RosterLen - 1

\* for idx in range(start_idx, len(sample_df))
LoopRunning(i) == i < RosterLen

\* pd.DataFrame(results).to_csv(checkpoint_file): the whole list
CheckpointContent(rows) == DataFrame(rows)

Init ==
    /\ script \in Scripts
    /\ pc = "start"
    /\ interrupts = 0
    /\ cpExists = FALSE
    /\ checkpoint = << >>
    /\ outExists = FALSE
    /\ output = << >>
    /\ results = << >>
    /\ start_idx = 0
    /\ idx = 0
    /\ author_data = NoAuthor
    /\ all_works = << >>
    /\ page = 1
    /\ searchResp = [i \in RosterIdx |-> Unset]
    /\ response = Unset
    /\ worksSrv = [i \in RosterIdx |-> NoServer]
    /\ searches = ZeroCount
    /\ worksReqs = ZeroCount
    /\ appended = ZeroCount
    /\ sleeps = ZeroCount
    /\ lastEvent = "none"
    /\ cpAtStart = 0
    /\ lost = FALSE
    /\ atFlush = TRUE
    /\ publisher_name = NoName
    /\ publisher_group = Unset
    /\ metrics = << >>
    /\ Idle

\* results = []; start_idx = 0; if the checkpoint file exists, results are
\* its rows and start_idx is their number
LoadCheckpoint ==
    /\ pc = "start"
    /\ results' = CheckpointRows
    /\ start_idx' = ResumeIndex(results')
    /\ cpAtStart' = Len(CheckpointRows)
    /\ idx' = start_idx'
    /\ pc' = "loop"
    /\ lastEvent' = "none"
    /\ UNCHANGED << apart, script, publisher_name, publisher_group, metrics,
                    response, interrupts, cpExists, checkpoint, outExists,
                    output, author_data, all_works, page, searchResp,
                    worksSrv, searches, worksReqs, appended, sleeps,
                    lost, atFlush >>

\* the head of one loop iteration: author_data = search_openalex_author(..)
SearchAuthor ==
    /\ pc = "loop"
    /\ LoopRunning(idx)
    /\ \E class \in {"found", "absent"} :
         /\ searchResp[idx] \in {Unset, class}
         /\ searchResp' = [searchResp EXCEPT ![idx] = class]
         /\ \E r \in ResponsesOf(class) :
              /\ response' = r
              /\ author_data' = search_openalex_author(idx, r)
    /\ searches' = [searches EXCEPT ![idx] = @ + SearchRequests(response')]
    /\ pc' = IF author_data' = Raised THEN "error" ELSE "searched"
    /\ lastEvent' = "none"
    /\ UNCHANGED << apart, script, publisher_name, publisher_group, metrics,
                    cpAtStart, interrupts, cpExists, checkpoint, outExists,
                    output, results, start_idx, idx, all_works, page,
                    worksSrv, worksReqs, appended, sleeps, lost, atFlush >>

\* variant: no delay after a researcher who was not found
SleepsAfter_SkipNotFound(outcome) == IF outcome = "not_found" THEN 0 ELSE 1

\* the calls of time.sleep(DELAY_BETWEEN_REQUESTS) that end the processing
\* of a roster row with the given outcome: one on each of the three paths
SleepsAfter(outcome) == 1

\* if not author_data: append the not-found row, sleep, continue
NotFound ==
    /\ pc = "searched"
    /\ author_data = NoAuthor
    /\ results' = Append(results, NotFoundRow(idx))
    /\ appended' = [appended EXCEPT ![idx] = @ + 1]
    /\ sleeps' = [sleeps EXCEPT ![idx] = @ + SleepsAfter("not_found")]
    /\ idx' = idx + 1
    /\ pc' = "loop"
    /\ lastEvent' = "none"
    /\ UNCHANGED << apart, script, publisher_name, publisher_group, metrics,
                    response, cpAtStart, interrupts, cpExists, checkpoint, outExists,
                    output, start_idx, author_data, all_works, page,
                    searchResp, worksSrv, searches, worksReqs, lost,
                    atFlush >>

\* works = fetch_all_works(openalex_id): all_works = []; page = 1
BeginFetch ==
    /\ pc = "searched"
    /\ author_data # NoAuthor
    /\ all_works' = << >>
    /\ page' = 1
    /\ pc' = "fetch"
    /\ lastEvent' = "none"
    /\ UNCHANGED << apart, script, publisher_name, publisher_group, metrics,
                    response, cpAtStart, interrupts, cpExists, checkpoint, outExists,
                    output, results, start_idx, idx, author_data,
                    searchResp, worksSrv, searches, worksReqs, appended,
                    sleeps, lost, atFlush >>

\* one iteration of the while True loop of fetch_all_works
FetchPage ==
    /\ pc = "fetch"
    /\ \E srv \in (IF worksSrv[idx] = NoServer THEN BatchServers
                   ELSE {worksSrv[idx]}) :
         /\ worksSrv' = [worksSrv EXCEPT ![idx] = srv]
         /\ \E step \in {FetchStep(srv, all_works, page)} :
                /\ all_works' = step.works
                /\ page' = step.page
                /\ pc' = IF step.done THEN "fetched" ELSE "fetch"
    /\ worksReqs' = [worksReqs EXCEPT ![idx] = @ + 1]
    /\ lastEvent' = "none"
    /\ UNCHANGED << apart, script, publisher_name, publisher_group, metrics,
                    response, interrupts, cpExists, checkpoint,
                    outExists, output, results, start_idx, idx, author_data,
                    searchResp, searches, appended, sleeps, cpAtStart, lost,
                    atFlush >>

\* if not works: append the found-no-works row, sleep, continue
NoWorks ==
    /\ pc = "fetched"
    /\ all_works = << >>
    /\ results' = Append(results, NoWorksRow(idx, author_data))
    /\ appended' = [appended EXCEPT ![idx] = @ + 1]
    /\ sleeps' = [sleeps EXCEPT ![idx] = @ + SleepsAfter("found_no_works")]
    /\ idx' = idx + 1
    /\ pc' = "loop"
    /\ lastEvent' = "none"
    /\ UNCHANGED << apart, script, publisher_name, publisher_group, metrics,
                    cpAtStart, response, interrupts, cpExists, checkpoint, outExists,
                    output, start_idx, author_data, all_works, page,
                    searchResp, worksSrv, searches, worksReqs, lost,
                    atFlush >>

\* metrics, results.append(result), the checkpoint write when (idx + 1) is
\* a multiple of CHECKPOINT_INTERVAL, sleep
Aggregate ==
    /\ pc = "fetched"
    /\ all_works # << >>
    /\ \E row \in {GoodRow(idx, author_data, all_works)} :
         results' = Append(results, row)
    /\ appended' = [appended EXCEPT ![idx] = @ + 1]
    /\ IF CheckpointDue(idx)
       THEN /\ checkpoint' = CheckpointContent(results')
            /\ cpExists' = TRUE
            /\ lastEvent' = IF cpExists THEN "overwrite" ELSE "create"
       ELSE /\ UNCHANGED << checkpoint, cpExists >>
            /\ lastEvent' = "none"
    /\ sleeps' = [sleeps EXCEPT ![idx] = @ + SleepsAfter("good")]
    /\ idx' = idx + 1
    /\ pc' = "loop"
    /\ UNCHANGED << apart, script, publisher_name, publisher_group, metrics,
                    cpAtStart, response, interrupts, outExists, output, start_idx,
                    author_data, all_works, page, searchResp, worksSrv,
                    searches, worksReqs, lost, atFlush >>

\* the loop is over: results_df = pd.DataFrame(results) is written to the
\* final output file
SaveOutput ==
    /\ pc = "loop"
    /\ ~LoopRunning(idx)
    /\ output' = DataFrame(results)
    /\ outExists' = TRUE
    /\ pc' = "saved"
    /\ lastEvent' = "none"
    /\ UNCHANGED << apart, script, publisher_name, publisher_group, metrics,
                    cpAtStart, response, interrupts, cpExists, checkpoint, results,
                    start_idx, idx, author_data, all_works, page,
                    searchResp, worksSrv, searches, worksReqs, appended,
                    sleeps, lost, atFlush >>

\* the rows of results_df with openalex_found == True
Found(df) == { k \in 1 .. Len(df) : df[k].openalex_found }

\* main of the sample script prints found['coverage_ratio'].median() when
\* len(found) > 0; only the rows of aggregated researchers bring that column,
\* and without one the script ends in KeyError after the output was written
SummaryFails(df) ==
    /\ script = "sample"
    /\ Found(df) # {}
    /\ \A k \in Found(df) : df[k].match_quality # "good"

\* variant: the clean-up is never reached
CleanupReached_Never(df) == FALSE

\* the checkpoint clean-up is reached: always in process_replicate, inside
\* 'if len(found) > 0' in main of the sample script
CleanupReached(df) == script = "replicate" \/ Found(df) # {}

\* if the checkpoint file exists: remove it
Cleanup ==
    /\ pc = "saved"
    /\ IF SummaryFails(output)
       THEN /\ UNCHANGED cpExists
            /\ lastEvent' = "none"
            /\ pc' = "error"
       ELSE IF CleanupReached(output)
       THEN /\ cpExists' = FALSE
            /\ lastEvent' = IF cpExists THEN "remove" ELSE "none"
            /\ pc' = "done"
       ELSE /\ UNCHANGED cpExists
            /\ lastEvent' = "none"
            /\ pc' = "done"
    /\ UNCHANGED << apart, script, publisher_name, publisher_group, metrics,
                    response, interrupts, checkpoint, outExists,
                    output, results, start_idx, idx, author_data, all_works,
                    page, searchResp, worksSrv, searches, worksReqs,
                    appended, sleeps, cpAtStart, lost, atFlush >>

\* the operator interrupts the process, and the script is started again
\* over the same roster: the files are kept, the memory is not.  The
\* answers to the requests of rows whose result is in no file had no
\* lasting effect: they are requested again and fixed anew.
Interrupt ==
    /\ pc \notin {"start", "done", "error"}
    /\ interrupts < MaxInterrupts
    /\ interrupts' = interrupts + 1
    /\ lost' = (lost \/ idx > Len(CheckpointRows))
    /\ atFlush' = (atFlush /\ idx % CHECKPOINT_INTERVAL = 0)
    /\ pc' = "start"
    /\ results' = << >>
    /\ start_idx' = 0
    /\ cpAtStart' = 0
    /\ idx' = 0
    /\ author_data' = NoAuthor
    /\ all_works' = << >>
    /\ page' = 1
    /\ searches' = ZeroCount
    /\ worksReqs' = ZeroCount
    /\ appended' = ZeroCount
    /\ sleeps' = ZeroCount
    /\ response' = Unset
    /\ lastEvent' = "none"
    /\ searchResp' = [i \in RosterIdx |->
                        IF i < RowsOnDisk THEN searchResp[i] ELSE Unset]
    /\ worksSrv' = [i \in RosterIdx |->
                      IF i < RowsOnDisk THEN worksSrv[i] ELSE NoServer]
    /\ UNCHANGED << apart, script, publisher_name, publisher_group, metrics,
                    cpExists, checkpoint, outExists, output >>

\* the steps of the process
Run ==
    \/ LoadCheckpoint
    \/ SearchAuthor
    \/ NotFound
    \/ BeginFetch
    \/ FetchPage
    \/ NoWorks
    \/ Aggregate
    \/ SaveOutput
    \/ Cleanup

Next ==
    \/ Run
    \/ Interrupt

Spec == Init /\ [][Next]_vars

\* the process is single-threaded and every call it makes returns or times
\* out: while it is not interrupted it takes its next step
LiveSpec == Init /\ [][Next]_vars /\ WF_vars(Run)

----------------------------------------------------------------------------
(* The functions called on their own *)

\* the state in which one function of script scr is about to be called on
\* its own: the position pos, the works server srv of the author of roster
\* row 0, the work list works and the publisher name name
Start(scr, pos, srv, works, name) ==
    /\ script = scr
    /\ pc = pos
    /\ interrupts = 0
    /\ cpExists = FALSE
    /\ checkpoint = << >>
    /\ outExists = FALSE
    /\ output = << >>
    /\ results = << >>
    /\ start_idx = 0
    /\ idx = 0
    /\ author_data = SampleId(0)
    /\ all_works = works
    /\ page = 1
    /\ searchResp = [i \in RosterIdx |-> Unset]
    /\ response = Unset
    /\ worksSrv = [i \in RosterIdx |-> IF i = 0 THEN srv ELSE NoServer]
    /\ searches = ZeroCount
    /\ worksReqs = ZeroCount
    /\ appended = ZeroCount
    /\ sleeps = ZeroCount
    /\ lastEvent = "none"
    /\ cpAtStart = 0
    /\ lost = FALSE
    /\ atFlush = TRUE
    /\ publisher_name = name
    /\ publisher_group = Unset
    /\ metrics = << >>

\* fetch_all_works(author_id) against any works server; the function is
\* the same in both scripts
FetchInit ==
    /\ \E srv \in WorksServers : Start("sample", "fetch", srv, << >>, NoName)
    /\ Idle

\* every page request returns or times out (timeout=15), so the loop takes
\* its next iteration
FetchSpec == FetchInit /\ [][FetchPage]_vars /\ WF_vars(FetchPage)

\* the parts the publisher names are made of
NameParts ==
    { << "E", "l", "s", "e", "v", "i", "e", "r" >>,
      << "W", "I", "L", "E", "Y" >>,
      << "S", "p", "r", "i", "n", "g", "e", "r" >>,
      << " ", "N", "a", "t", "u", "r", "e" >>,
      << "O", "x", "f", "o", "r", "d", " ", "U", "n", "i", "v", "e", "r",
         "s", "i", "t", "y", " ", "P", "r", "e", "s", "s" >>,
      << "M", "a", "c", "m", "i", "l", "l", "a", "n" >>,
      << "G", "r", "o", "u", "p" >>,
      << "S", "a", "g", "e" >>,
      << " " >>,
      << "U", "n", "k", "n", "o", "w", "n" >>,
      << "u", "n", "k", "n", "o", "w", "n" >>,
      << "P", "a", "l", "g", "r", "a", "v", "e", " " >>,
      << "T", "a", "y", "l", "o", "r", " ", "&", " ", "F", "r", "a", "n",
         "c", "i", "s" >> }

RECURSIVE NamesOf(_)
\* the texts made of at most n parts
NamesOf(n) ==
    IF n = 0 THEN { << >> }
    ELSE NamesOf(n - 1)
         \cup { a \o b : a \in NamesOf(n - 1), b \in NameParts }

\* the arguments of classify_publisher: None and the texts
PublisherNames == {NoName} \cup NamesOf(MaxParts)

\* classify_publisher of any publisher name; the function is the same in
\* both scripts
ClassifyInit ==
    /\ \E name \in PublisherNames :
         Start("sample", "classify", NoServer, << >>, name)
    /\ Idle

\* publisher_group = classify_publisher(publisher_raw)
Classify ==
    /\ pc = "classify"
    /\ publisher_group' = classify_publisher(publisher_name)
    /\ pc' = "classified"
    /\ UNCHANGED << apart, script, publisher_name, metrics, interrupts, cpExists,
                    checkpoint, outExists, output, results, start_idx, idx,
                    author_data, all_works, page, searchResp, response,
                    worksSrv, searches, worksReqs, appended, sleeps,
                    lastEvent, cpAtStart, lost, atFlush >>

ClassifySpec == ClassifyInit /\ [][Classify]_vars

\* the dicts fetch_all_works makes of the kinds of work objects
IngestedKinds == { IngestedKind[k] : k \in 1 .. Len(Catalogue) }

RECURSIVE ListsOf(_)
\* the work lists of at most n works
ListsOf(n) ==
    IF n = 0 THEN { << >> }
    ELSE ListsOf(n - 1)
         \cup { Append(l, w) : l \in ListsOf(n - 1), w \in IngestedKinds }

MetricsInit ==
    /\ \E scr \in Scripts, works \in ListsOf(MaxWorks) :
         Start(scr, "metrics", NoServer, works, NoName)
    /\ Idle

\* metrics = calculate_metrics(works)
Calculate ==
    /\ pc = "metrics"
    /\ metrics' = calculate_metrics(all_works)
    /\ pc' = "calculated"
    /\ UNCHANGED << apart, script, publisher_name, publisher_group, interrupts,
                    cpExists, checkpoint, outExists, output, results,
                    start_idx, idx, author_data, all_works, page, searchResp,
                    response, worksSrv, searches, worksReqs, appended,
                    sleeps, lastEvent, cpAtStart, lost, atFlush >>

MetricsSpec == MetricsInit /\ [][Calculate]_vars

RECURSIVE Without(_, _)
\* str.replace(ch, ''): the text without its characters ch
Without(text, ch) ==
    IF text = << >> THEN << >>
    ELSE IF Head(text) = ch THEN Without(Tail(text), ch)
    ELSE << Head(text) >> \o Without(Tail(text), ch)

RECURSIVE Strip(_)
\* str.strip(): the text without its leading and trailing blanks
Strip(text) ==
    IF text = << >> THEN << >>
    ELSE IF Head(text) = " " THEN Strip(Tail(text))
    ELSE IF text[Len(text)] = " " THEN Strip(SubSeq(text, 1, Len(text) - 1))
    ELSE text

\* params of the GET /authors request: search_name is the name without
\* commas, stripped; the institution is not sent
SearchParams(name, institution) ==
    [search |-> Strip(Without(name, ",")), per_page |-> 10, mailto |-> "EMAIL"]

\* variant: the candidate is chosen by the institution hint
PickCandidate_ByInstitution(candidates, institution) ==
    IF institution = "Oxford" /\ Len(candidates) > 1 THEN candidates[2]
    ELSE candidates[1]

\* return results[0]
PickCandidate(candidates, institution) == candidates[1]

\* one call search_openalex_author(name, institution) against the server:
\* the request it issues and what it returns, None on any exception and on
\* an empty 'results'
SearchAuthorCall(name, institution, server) ==
    LET params == SearchParams(name, institution)
        answer == server[params.search]
    IN  [name |-> name, institution |-> institution, params |-> params,
         result |-> IF answer.status # "ok" \/ answer.results = << >>
                    THEN NoAuthor
                    ELSE PickCandidate(answer.results, institution)]

\* the roster names searched for
SearchNames ==
    { << "D", "o", "e", ",", " ", "J" >>,
      << " ", "D", "o", "e", " ", "J", " " >>,
      << "R", "o", "e", ",", " ", "A", "," >> }

\* the institution hints, None among them
Institutions == {"<None>", "MIT", "Oxford"}

\* what the server can answer to one GET /authors: a failure, no candidate,
\* one candidate, several candidates (authors are numbered)
SearchAnswers ==
    { [status |-> "timeout", results |-> << >>],
      [status |-> "http_error", results |-> << >>],
      [status |-> "ok", results |-> << >>],
      [status |-> "ok", results |-> << 7 >>],
      [status |-> "ok", results |-> << 8, 7 >>] }

\* the servers: one answer for every search text
SearchServers ==
    [ { SearchParams(n, "<None>").search : n \in SearchNames }
        -> SearchAnswers ]

\* search_openalex_author called on its own, several times against one
\* server; the function is the same in both scripts
SearchInit ==
    /\ Start("sample", "search_call", NoServer, << >>, NoName)
    /\ \E server \in SearchServers : call = [server |-> server, calls |-> << >>]
    /\ program = NoProgram

\* author_data = search_openalex_author(name, institution)
CallSearch ==
    /\ pc = "search_call"
    /\ Len(call.calls) < MaxCalls
    /\ \E name \in SearchNames, institution \in Institutions :
         call' = [call EXCEPT
                     !.calls = Append(@, SearchAuthorCall(name, institution,
                                                          call.server))]
    /\ UNCHANGED << program, batch >>

SearchSpec == SearchInit /\ [][CallSearch]_vars

\* the states of an input roster file: it does not exist, it lacks a
\* column that the loop reads, it is as expected, it is no input of the run
RosterStates == {"missing", "malformed", "good"}

\* the inputs of a run: comprehensive_sample.csv for the sample script,
\* replicate_1_n400.csv .. replicate_<n_replicates>_n400.csv for the
\* replicate script
Inputs(scr) == IF scr = "sample" THEN {1} ELSE 1 .. n_replicates

\* main of either script, from its start
MainInit ==
    /\ \E scr \in Scripts : Start(scr, "main", NoServer, << >>, NoName)
    /\ call = NoCall
    /\ \E files \in [1 .. n_replicates -> RosterStates \cup {"unused"}] :
         /\ \A i \in 1 .. n_replicates :
              files[i] = "unused" <=> i \notin Inputs(script)
         /\ program = [roster_files |-> files, i |-> 1, net_requests |-> 0,
                       pc |-> "start"]

\* main of the sample script: if not os.path.exists(sample_file): print the
\* message and return; else read the file and call process_sample
CheckSampleFile ==
    /\ script = "sample"
    /\ program.pc = "start"
    /\ program' = [program EXCEPT
                      !.pc = IF program.roster_files[1] = "missing"
                             THEN "returned" ELSE "process"]
    /\ UNCHANGED << call, batch >>

\* process_sample(sample_df), no checkpoint file existing: the first loop
\* iteration reads the columns of the row, which raises KeyError when one
\* is missing, and then issues the first author search
ProcessSample ==
    /\ script = "sample"
    /\ program.pc = "process"
    /\ program' = IF program.roster_files[1] = "malformed"
                  THEN [program EXCEPT !.pc = "raised"]
                  ELSE [program EXCEPT !.pc = "finished",
                                       !.net_requests = @ + 1]
    /\ UNCHANGED << call, batch >>

\* one iteration of for i in range(1, n_replicates + 1) of
\* match_all_replicates: a missing file is reported and the loop continues
\* with the next replicate; otherwise process_replicate is called
NextReplicate ==
    /\ script = "replicate"
    /\ program.pc = "start"
    /\ program.i <= n_replicates
    /\ program' = IF program.roster_files[program.i] = "missing"
                  THEN [program EXCEPT !.i = @ + 1]
                  ELSE IF program.roster_files[program.i] = "malformed"
                  THEN [program EXCEPT !.pc = "raised"]
                  ELSE [program EXCEPT !.i = @ + 1, !.net_requests = @ + 1]
    /\ UNCHANGED << call, batch >>

\* after the loop: pd.concat(all_results) raises ValueError when no
\* replicate was processed
CombineReplicates ==
    /\ script = "replicate"
    /\ program.pc = "start"
    /\ program.i > n_replicates
    /\ program' = [program EXCEPT
                      !.pc = IF \A i \in 1 .. n_replicates :
                                    program.roster_files[i] = "missing"
                             THEN "raised" ELSE "finished"]
    /\ UNCHANGED << call, batch >>

MainNext ==
    \/ CheckSampleFile
    \/ ProcessSample
    \/ NextReplicate
    \/ CombineReplicates

MainSpec == MainInit /\ [][MainNext]_vars

----------------------------------------------------------------------------
(* fetch_all_550_researchers.py: the metrics of one author *)

RECURSIVE sorted_reverse(_)
\* sorted(citations_list, reverse=True)
sorted_reverse(list) ==
    IF list = << >> THEN << >>
    ELSE LET k == CHOOSE k \in 1 .. Len(list) :
                      \A j \in 1 .. Len(list) : list[j] <= list[k]
         IN  << list[k] >>
             \o sorted_reverse(SubSeq(list, 1, k - 1)
                               \o SubSeq(list, k + 1, Len(list)))

RECURSIVE HLoop_Strict(_, _, _, _)
\* variant: an entry counts towards h = i only when it exceeds i
HLoop_Strict(sorted_cites, i, h, unit) ==
    IF i > Len(sorted_cites) THEN h
    ELSE IF sorted_cites[i] > i * unit
         THEN HLoop_Strict(sorted_cites, i + 1, i, unit)
         ELSE h

RECURSIVE HLoop(_, _, _, _)
\* for i, cites in enumerate(sorted_cites, 1): h = i while cites >= i, the
\* entries being in units of 1/unit
HLoop(sorted_cites, i, h, unit) ==
    IF i > Len(sorted_cites) THEN h
    ELSE IF sorted_cites[i] >= i * unit
         THEN HLoop(sorted_cites, i + 1, i, unit)
         ELSE h

\* the body of calculate_h_index for entries in units of 1/unit
HIndexOf(values, unit) ==
    IF values = << >> THEN 0
    ELSE HLoop(sorted_reverse(values), 1, 0, unit)

\* calculate_h_index(citations_list)
calculate_h_index(list) == HIndexOf(list, 1)

\* the quotients cites / n_authors are kept in units of 1/AuthorScale, a
\* multiple of every number of authors of the model
AuthorScale == 6

\* calculate_hm_index(citations_list, num_authors_list)
calculate_hm_index(list, num_authors_list) ==
    IF list = << >> THEN 0
    ELSE HIndexOf([k \in 1 .. Min(Len(list), Len(num_authors_list)) |->
                      IF num_authors_list[k] > 0
                      THEN (list[k] * AuthorScale) \div num_authors_list[k]
                      ELSE 0],
                  AuthorScale)

\* str.endswith(suffix)
EndsWith(text, suffix) ==
    /\ Len(suffix) <= Len(text)
    /\ SubSeq(text, Len(text) - Len(suffix) + 1, Len(text)) = suffix

\* author_position: the 1-based place of the first authorship whose author
\* id ends with author_id, 0 for None
AuthorPosition(authorships, author_id) ==
    IF \E j \in 1 .. Len(authorships) : EndsWith(authorships[j], author_id)
    THEN CHOOSE j \in 1 .. Len(authorships) :
             /\ EndsWith(authorships[j], author_id)
             /\ \A k \in 1 .. (j - 1) : ~EndsWith(authorships[k], author_id)
    ELSE 0

\* variant: a work on which the author is not found is still counted as
\* single-authored when it has one author
Counted_NoPositionTest(work, author_id) ==
    LET cites == work.cited_by_count
        n_authors == Len(work.authorships)
        author_position == AuthorPosition(work.authorships, author_id)
    IN  IF n_authors = 1
        THEN [nc |-> cites, ncs |-> cites, ncsf |-> cites, ncsfl |-> cites]
        ELSE IF author_position = 1
        THEN [nc |-> cites, ncs |-> 0, ncsf |-> cites, ncsfl |-> cites]
        ELSE IF author_position = n_authors /\ n_authors > 0
        THEN [nc |-> cites, ncs |-> 0, ncsf |-> 0, ncsfl |-> cites]
        ELSE [nc |-> cites, ncs |-> 0, ncsf |-> 0, ncsfl |-> 0]

\* what one work adds to the four citation totals
Counted(work, author_id) ==
    LET cites == work.cited_by_count
        n_authors == Len(work.authorships)
        author_position == AuthorPosition(work.authorships, author_id)
    IN  IF author_position = 0
        THEN [nc |-> cites, ncs |-> 0, ncsf |-> 0, ncsfl |-> 0]
        ELSE IF n_authors = 1
        THEN [nc |-> cites, ncs |-> cites, ncsf |-> cites, ncsfl |-> cites]
        ELSE IF author_position = 1
        THEN [nc |-> cites, ncs |-> 0, ncsf |-> cites, ncsfl |-> cites]
        ELSE IF author_position = n_authors
        THEN [nc |-> cites, ncs |-> 0, ncsf |-> 0, ncsfl |-> cites]
        ELSE [nc |-> cites, ncs |-> 0, ncsf |-> 0, ncsfl |-> 0]

RECURSIVE Totals(_, _)
\* the four totals after the loop over works
Totals(works, author_id) ==
    IF works = << >> THEN [nc |-> 0, ncs |-> 0, ncsf |-> 0, ncsfl |-> 0]
    ELSE LET t == Totals(SubSeq(works, 1, Len(works) - 1), author_id)
             c == Counted(works[Len(works)], author_id)
         IN  [nc |-> t.nc + c.nc, ncs |-> t.ncs + c.ncs,
              ncsf |-> t.ncsf + c.ncsf, ncsfl |-> t.ncsfl + c.ncsfl]

\* fetch_author_metrics(openalex_id) against the answer resp to its one
\* request; author_id is the last segment of openalex_id
fetch_author_metrics(author_id, resp) ==
    IF resp.status # 200 THEN NoMetrics
    ELSE IF resp.results = << >> THEN NoMetrics
    ELSE LET works == resp.results
             t == Totals(works, author_id)
             all_citations == [k \in 1 .. Len(works) |->
                                  works[k].cited_by_count]
             all_author_counts ==
                 [k \in 1 .. Len(works) |->
                     IF Len(works[k].authorships) > 0
                     THEN Len(works[k].authorships) ELSE 1]
         IN  [nc |-> t.nc,
              h |-> calculate_h_index(all_citations),
              hm |-> calculate_hm_index(all_citations, all_author_counts),
              ncs |-> t.ncs, ncsf |-> t.ncsf, ncsfl |-> t.ncsfl,
              n_works |-> Len(works)]

\* the lists of citation counts calculate_h_index is called on
CitationLists ==
    UNION { [1 .. n -> 0 .. MaxCount] : n \in 0 .. MaxCounts }

HIndexInit ==
    /\ Start("fetch_all_550", "h_index", NoServer, << >>, NoName)
    /\ \E list \in CitationLists : call = [citations_list |-> list, h_index |-> 0]
    /\ program = NoProgram

\* h_index = calculate_h_index(citations_list)
CallHIndex ==
    /\ pc = "h_index"
    /\ call' = [call EXCEPT !.h_index = calculate_h_index(call.citations_list)]
    /\ pc' = "returned"
    /\ UNCHANGED << program, atRest >>

HIndexSpec == HIndexInit /\ [][CallHIndex]_vars

\* the author whose metrics are fetched, and other authors: one whose id
\* has the author's id as a prefix, and an authorship without an id
Me == << "A", "1" >>
Coauthor == << "A", "2" >>
Namesake == << "A", "1", "1" >>
NoId == << >>

\* the author lists of the work objects of the remote service: sole
\* author, someone else's work, first of two, last of two, middle of
\* three, absent from two, no authorships, first and last of three
AuthorLists ==
    { << Me >>, << Coauthor >>, << Me, Coauthor >>, << Coauthor, Me >>,
      << Coauthor, Me, Namesake >>, << Namesake, NoId >>, << >>,
      << Me, Coauthor, Me >> }

\* the work objects of the remote service
AuthoredWorks ==
    { [cited_by_count |-> c, authorships |-> a] :
        c \in {0, 2}, a \in AuthorLists }

RECURSIVE AuthoredLists(_)
\* the lists of at most n work objects
AuthoredLists(n) ==
    IF n = 0 THEN { << >> }
    ELSE AuthoredLists(n - 1)
         \cup { Append(l, w) : l \in AuthoredLists(n - 1),
                               w \in AuthoredWorks }

\* what the GET /works of one author can answer: a status other than 200,
\* or 200 with a list of at most n work objects
WorksResponses(n) ==
    { [status |-> 500, results |-> << >>] }
    \cup { [status |-> 200, results |-> l] : l \in AuthoredLists(n) }

AuthorMetricsInit ==
    /\ Start("fetch_all_550", "fetch_author_metrics", NoServer, << >>, NoName)
    /\ \E resp \in WorksResponses(MaxWorks) :
         call = [works_response |-> resp, metrics |-> NoMetrics]
    /\ program = NoProgram

\* metrics = fetch_author_metrics(openalex_id)
CallFetchAuthorMetrics ==
    /\ pc = "fetch_author_metrics"
    /\ call' = [call EXCEPT
                   !.metrics = fetch_author_metrics(Me, call.works_response)]
    /\ pc' = "returned"
    /\ UNCHANGED << program, atRest >>

AuthorMetricsSpec == AuthorMetricsInit /\ [][CallFetchAuthorMetrics]_vars

----------------------------------------------------------------------------
(* fetch_all_550_researchers.py: the script *)

\* places of the rows of df_matched, 0-based as in enumerate
MatchedIdx == 0 .. (Matched - 1)

\* row['openalex_id'] of the matched row at place i
MatchedId(i) == << "A", i + 1 >>

\* the remote service either fails for an author or lists one work of theirs
RemoteAnswers(i) ==
    { [status |-> 500, results |-> << >>],
      [status |-> 200,
       results |-> << [cited_by_count |-> 2,
                       authorships |-> << MatchedId(i) >>] >>] }

\* the openalex_id column of rows
IdsOf(rows) == { rows[k].openalex_id : k \in 1 .. Len(rows) }

\* the script from its start, no file existing: the two files, what the
\* script holds in memory, its position pc, and remote_works (the answer to
\* GET /works per matched row), fetched_ok (the matched rows whose metrics
\* some run has fetched) and stops (the interrupts so far)
FetchAllInit ==
    /\ Start("fetch_all_550", "script", NoServer, << >>, NoName)
    /\ call = NoCall
    /\ \E remote \in [MatchedIdx -> UNION { RemoteAnswers(i) : i \in MatchedIdx }] :
         /\ \A i \in MatchedIdx : remote[i] \in RemoteAnswers(i)
         /\ program = [output_file |-> << >>, progress_file |-> NoProgress,
                       existing_data |-> << >>, processed_ids |-> {},
                       start_idx |-> 0, idx |-> 0, success_count |-> 0,
                       metrics |-> NoMetrics, pc |-> "start",
                       remote_works |-> remote, fetched_ok |-> {},
                       stops |-> 0]

\* the script starts: it reads the results file and the progress file
LoadProgress ==
    /\ program.pc = "start"
    /\ program' = [program EXCEPT
          !.existing_data = program.output_file,
          !.processed_ids = IdsOf(program.output_file),
          !.start_idx = IF program.progress_file # NoProgress
                        THEN program.progress_file ELSE 0,
          !.success_count = Len(program.output_file),
          !.idx = 0,
          !.metrics = NoMetrics,
          !.pc = "loop"]
    /\ UNCHANGED << call, batch >>

\* an iteration that ends at one of the two 'continue'
SkipRow ==
    /\ program.pc = "loop"
    /\ program.idx < Matched
    /\ \/ program.idx < program.start_idx
       \/ MatchedId(program.idx) \in program.processed_ids
    /\ program' = [program EXCEPT !.idx = @ + 1]
    /\ UNCHANGED << call, batch >>

\* idx % 10 == 0 and idx > 0
ProgressAt(i) == i % PROGRESS_EVERY = 0 /\ i > 0

\* an iteration up to the request: the progress file is written at every
\* PROGRESS_EVERY-th row
BeginRow ==
    /\ program.pc = "loop"
    /\ program.idx < Matched
    /\ program.idx >= program.start_idx
    /\ MatchedId(program.idx) \notin program.processed_ids
    /\ program' = [program EXCEPT
          !.progress_file = IF ProgressAt(program.idx) THEN program.idx ELSE @,
          !.pc = "fetch"]
    /\ UNCHANGED << call, batch >>

\* metrics = fetch_author_metrics(row['openalex_id'])
FetchMetrics ==
    /\ program.pc = "fetch"
    /\ \E m \in { fetch_author_metrics(MatchedId(program.idx),
                                        program.remote_works[program.idx]) } :
         program' = [program EXCEPT
            !.metrics = m,
            !.fetched_ok = IF m # NoMetrics THEN @ \cup {program.idx} ELSE @,
            !.pc = "store"]
    /\ UNCHANGED << call, batch >>

\* the rest of the iteration: the entry is appended, and the results file
\* is written at every SAVE_EVERY-th success
StoreEntry ==
    /\ program.pc = "store"
    /\ IF program.metrics # NoMetrics
       THEN LET entry == program.metrics
                         @@ [openalex_id |-> MatchedId(program.idx)]
                data == Append(program.existing_data, entry)
            IN  program' = [program EXCEPT
                   !.existing_data = data,
                   !.success_count = @ + 1,
                   !.output_file =
                       IF (program.success_count + 1) % SAVE_EVERY = 0
                       THEN data ELSE @,
                   !.idx = @ + 1,
                   !.pc = "loop"]
       ELSE program' = [program EXCEPT !.idx = @ + 1, !.pc = "loop"]
    /\ UNCHANGED << call, batch >>

\* after the loop: final_df.to_csv(OUTPUT_FILE) if existing_data
FinalSave ==
    /\ program.pc = "loop"
    /\ program.idx = Matched
    /\ program' = [program EXCEPT
          !.output_file = IF program.existing_data # << >>
                          THEN program.existing_data ELSE @,
          !.pc = "cleanup"]
    /\ UNCHANGED << call, batch >>

\* the log is written and the progress file removed
RemoveProgress ==
    /\ program.pc = "cleanup"
    /\ program' = [program EXCEPT !.progress_file = NoProgress,
                                  !.pc = "finished"]
    /\ UNCHANGED << call, batch >>

\* the operator interrupts the script, which is then started again: what
\* it held in memory is gone, the two files stay
InterruptFetchAll ==
    /\ program.pc \in {"loop", "fetch", "store", "cleanup"}
    /\ program.stops < MaxInterrupts
    /\ program' = [program EXCEPT
          !.stops = @ + 1,
          !.existing_data = << >>,
          !.processed_ids = {},
          !.start_idx = 0,
          !.idx = 0,
          !.success_count = 0,
          !.metrics = NoMetrics,
          !.pc = "start"]
    /\ UNCHANGED << call, batch >>

FetchAllNext ==
    \/ LoadProgress
    \/ SkipRow
    \/ BeginRow
    \/ FetchMetrics
    \/ StoreEntry
    \/ FinalSave
    \/ RemoveProgress
    \/ InterruptFetchAll

FetchAllSpec == FetchAllInit /\ [][FetchAllNext]_vars

----------------------------------------------------------------------------
(* run_all_analyses.py *)

\* the keys of results, in the order of the steps of main
Steps == << "verify", "analysis", "figures_1_3", "figure_4" >>

\* what subprocess.run of a command can do: exit status 0 with or without
\* text on stderr, CalledProcessError, FileNotFoundError
Outcomes(step) ==
    IF step = "analysis"
    THEN {"ok", "ok_future_warning", "ok_warnings", "nonzero"}
    ELSE IF step = "figures_1_3"
    THEN {"ok", "nonzero", "not_found"}
    ELSE {"ok", "nonzero"}

\* subprocess.run returned without raising
Completed(outcome) ==
    outcome \in {"ok", "ok_future_warning", "ok_warnings"}

\* run_command(cmd, description): True when the command exits with status
\* 0, False on CalledProcessError and on FileNotFoundError
run_command(step) == Completed(program.tool_outcomes[step])

\* results[key] = value
Set(res, key, value) ==
    [k \in DOMAIN res \cup {key} |->
        IF k = key THEN value ELSE res[k]]

\* variant: only the figures decide the exit code
ExitCode_FiguresOnly(res) ==
    IF res["figures_1_3"] /\ res["figure_4"] THEN 0 ELSE 1

\* 0 if all(results.values()) else 1
ExitCode(res) ==
    IF \A k \in DOMAIN res : res[k] THEN 0 ELSE 1

\* main from its start: tool_outcomes is what each command of the pipeline
\* does, results the dict results, steps_started the commands started so
\* far, summary_file what was written to ANALYSIS_SUMMARY_n600.txt,
\* exit_code what main returned
RunAllInit ==
    /\ Start("run_all_analyses", "script", NoServer, << >>, NoName)
    /\ call = NoCall
    /\ \E tools \in [{ Steps[k] : k \in 1 .. Len(Steps) } ->
                       UNION { Outcomes(Steps[k]) : k \in 1 .. Len(Steps) }] :
         /\ \A k \in 1 .. Len(Steps) : tools[Steps[k]] \in Outcomes(Steps[k])
         /\ program = [tool_outcomes |-> tools, results |-> << >>,
                       steps_started |-> << >>, summary_file |-> << >>,
                       exit_code |-> NoExit, pc |-> "verify"]

\* Step 1: results['verify'] = run_command(verify_setup.py); main returns 1
\* when it is False
Verify ==
    /\ program.pc = "verify"
    /\ program' = [program EXCEPT
          !.steps_started = Append(@, "verify"),
          !.results = Set(@, "verify", run_command("verify")),
          !.pc = IF run_command("verify") THEN "analysis" ELSE "returned",
          !.exit_code = IF run_command("verify") THEN @ ELSE 1]
    /\ UNCHANGED << call, batch >>

\* Step 2: analyze_coverage_bias.py is run with ANALYSIS_SUMMARY_n600.txt
\* open for writing
Analysis ==
    /\ program.pc = "analysis"
    /\ program' = [program EXCEPT
          !.steps_started = Append(@, "analysis"),
          !.summary_file =
              IF program.tool_outcomes["analysis"] = "ok_warnings"
              THEN << "stdout", "Warnings:", "stderr" >>
              ELSE IF Completed(program.tool_outcomes["analysis"])
              THEN << "stdout" >>
              ELSE << "Analysis failed", "stderr" >>,
          !.results = Set(@, "analysis",
                          Completed(program.tool_outcomes["analysis"])),
          !.pc = "figures_1_3"]
    /\ UNCHANGED << call, batch >>

\* Step 3: results['figures_1_3'] = run_command(Rscript ...)
Figures13 ==
    /\ program.pc = "figures_1_3"
    /\ program' = [program EXCEPT
          !.steps_started = Append(@, "figures_1_3"),
          !.results = Set(@, "figures_1_3", run_command("figures_1_3")),
          !.pc = "figure_4"]
    /\ UNCHANGED << call, batch >>

\* Step 4: results['figure_4'] = run_command(figure_4_university_adoption.py)
Figure4 ==
    /\ program.pc = "figure_4"
    /\ program' = [program EXCEPT
          !.steps_started = Append(@, "figure_4"),
          !.results = Set(@, "figure_4", run_command("figure_4")),
          !.pc = "summary"]
    /\ UNCHANGED << call, batch >>

\* the summary is printed and main returns
Summary ==
    /\ program.pc = "summary"
    /\ program' = [program EXCEPT !.exit_code = ExitCode(program.results),
                                  !.pc = "returned"]
    /\ UNCHANGED << call, batch >>

RunAllNext ==
    \/ Verify
    \/ Analysis
    \/ Figures13
    \/ Figure4
    \/ Summary

RunAllSpec == RunAllInit /\ [][RunAllNext]_vars

----------------------------------------------------------------------------
(* Reference: the rows a run without interruption appends *)

\* fetch_all_works, worked out once for each works server of the batch
FetchedFrom == [srv \in BatchServers \cup {NoServer} |-> fetch_all_works(srv)]

\* the row of roster row i, from the remote service's answers for it
ExpectedRow(i) ==
    IF searchResp[i] # "found" THEN NotFoundRow(i)
    ELSE LET works == FetchedFrom[worksSrv[i]]
         IN  IF works = << >> THEN NoWorksRow(i, SampleId(i))
             ELSE GoodRow(i, SampleId(i), works)

\* the rows of roster rows 0 .. n-1 in roster order
ExpectedRows(n) == [k \in 1 .. n |-> ExpectedRow(k - 1)]

\* the process is inside a run, after the checkpoint was looked for
InRun == pc \in {"loop", "searched", "fetch", "fetched"}

\* the run left the loop over the roster
Finished == pc \in {"saved", "done", "error"}

\* the roster rows the current run has processed
Processed == { i \in RosterIdx : start_idx <= i /\ i < idx }

Qualities(rows) == { rows[k].match_quality : k \in 1 .. Len(rows) }

----------------------------------------------------------------------------
(* Claims *)

\* C1 as stated: in every state of a run the checkpoint file has as many
\* rows as roster rows were processed so far, and they are the results of
\* the roster rows 0 .. n-1 in roster order.
C1_CheckpointEqualsProcessed ==
    InRun => /\ Len(CheckpointRows) = idx
             /\ CheckpointRows = DataFrame(ExpectedRows(idx))

\* C1 amended: in every state of a run the checkpoint file has at most as
\* many rows as roster rows were processed so far, its L rows are the results
\* of the roster rows 0 .. L-1 in roster order, and right after a checkpoint
\* write and right after the load of a resumed run L is the number of rows
\* processed so far.
C1_CheckpointIsProcessedPrefix ==
    (InRun \/ Finished) =>
        LET L == Len(CheckpointRows)
        IN  /\ L <= idx
            /\ idx = Len(results)
            /\ CheckpointRows = DataFrame(ExpectedRows(L))
            /\ \A k \in 1 .. L : CheckpointRows[k].sample_id = SampleId(k - 1)
            /\ lastEvent \in {"create", "overwrite"} => L = idx
            /\ (pc = "loop" /\ idx = start_idx) => L = idx

\* C1 witness: a run has processed a row beyond a checkpoint it wrote
C1_Witness ==
    /\ pc = "loop"
    /\ cpExists
    /\ Len(checkpoint) = CHECKPOINT_INTERVAL
    /\ idx = CHECKPOINT_INTERVAL + 1
    /\ start_idx = 0

\* C2: a run that finds a checkpoint of L rows searches, fetches and appends
\* no roster row below L, and processes every roster row from L on exactly
\* once, also the rows an interrupted run had processed after its last
\* checkpoint write.
C2_ResumePosition ==
    (InRun \/ Finished) =>
        /\ start_idx = cpAtStart
        /\ \A i \in RosterIdx :
             /\ i < cpAtStart =>
                  searches[i] = 0 /\ worksReqs[i] = 0 /\ appended[i] = 0
             /\ (cpAtStart <= i /\ i < idx) =>
                  searches[i] = 1 /\ appended[i] = 1
             /\ i > idx => searches[i] = 0 /\ appended[i] = 0
        /\ Finished => idx = RosterLen

\* C2 witness: a resumed run has finished after an interrupt that discarded
\* rows processed since the last checkpoint write
C2_Witness ==
    /\ pc = "done"
    /\ lost
    /\ cpAtStart > 0
    /\ cpAtStart < RosterLen

\* C3: with fixed remote answers, a run interrupted after exactly m*K
\* processed rows and resumed writes the final output of a run that is not
\* interrupted: the rows of the roster rows 0 .. N-1, row for row.
C3_ResumeEquivalence ==
    (Finished /\ atFlush) => output = DataFrame(ExpectedRows(RosterLen))

\* C3 witness: a run resumed from a checkpoint after an interrupt at m*K
\* rows, m >= 1, has written its output, with all three outcomes in it
C3_Witness ==
    /\ pc = "done"
    /\ interrupts > 0
    /\ atFlush
    /\ cpAtStart > 0
    /\ cpAtStart < RosterLen
    /\ Qualities(output) = {"not_found", "found_no_works", "good"}

\* C4: whenever the number of processed roster rows reaches a multiple of
\* CHECKPOINT_INTERVAL, the whole in-memory result list is in the checkpoint
\* file before the next row is started.
C4_FlushAtEveryInterval ==
    (pc = "loop" /\ idx > start_idx /\ idx % CHECKPOINT_INTERVAL = 0) =>
        /\ cpExists
        /\ checkpoint = DataFrame(results)

\* C5: the checkpoint file is removed only by the clean-up that follows the
\* write of the final output of the whole roster, and a run that has
\* completed the roster leaves no checkpoint file.
C5_RemovedOnlyAfterCompletion ==
    /\ [][(cpExists /\ ~cpExists') =>
            /\ pc = "saved"
            /\ idx = RosterLen
            /\ outExists
            /\ output = DataFrame(results)
            /\ Len(output) = RosterLen]_vars
    /\ [](pc \in {"done", "error"} => ~cpExists)

\* C5 witness: a completed run has removed a checkpoint file
C5_Witness ==
    /\ pc = "done"
    /\ lastEvent = "remove"
    /\ ~cpExists

\* C6: every checkpoint write keeps the rows of the checkpoint file it
\* replaces (the rows loaded at the start of a resumed run included) as a
\* prefix, unchanged and in order.
C6_CheckpointMonotonic ==
    /\ [][(cpExists /\ cpExists') =>
            IsPrefix(checkpoint, checkpoint')]_vars
    /\ [](InRun => IsPrefix(SubSeq(CheckpointRows, 1, cpAtStart),
                            DataFrame(results))
                   /\ cpAtStart <= Len(CheckpointRows))

\* C6 witness: a checkpoint write has replaced a shorter checkpoint file
C6_Witness ==
    /\ lastEvent = "overwrite"
    /\ Len(checkpoint) > CHECKPOINT_INTERVAL

\* C7: the final output of a finished run, fresh or resumed, has exactly one
\* row per roster row, in roster order, whatever the outcomes of the rows.
C7_OutputComplete ==
    Finished =>
        /\ outExists
        /\ Len(output) = RosterLen
        /\ \A k \in 1 .. Len(output) : output[k].sample_id = SampleId(k - 1)

\* C7 witness: a resumed run has finished with all three outcomes
C7_Witness ==
    /\ pc = "done"
    /\ cpAtStart > 0
    /\ outExists
    /\ Qualities(output) = {"not_found", "found_no_works", "good"}
    /\ Qualities(SubSeq(output, 1, cpAtStart)) # Qualities(output)

\* the search requests that fail or find nobody
SearchFailures == SearchResponses \ {"found"}

\* roster row i met a failure: its search failed or found nobody, or a
\* works page request of its author failed
RowFailed(i) ==
    \/ searchResp[i] = "absent"
    \/ /\ searchResp[i] = "found"
       /\ worksSrv[i].failPage >= 1
       /\ (worksSrv[i].failPage - 1) * per_page < worksSrv[i].count

\* the degraded row a failure of roster row i leaves
Degraded(row, i) ==
    IF searchResp[i] = "absent"
    THEN ~row.openalex_found /\ row.match_quality = "not_found"
    ELSE IF worksSrv[i].failPage = 1
    THEN row.openalex_found /\ row.match_quality = "found_no_works"
    ELSE /\ row.openalex_found
         /\ row.match_quality = "good"
         /\ row.total_works = (worksSrv[i].failPage - 1) * per_page

\* C8: whatever searches and works page requests fail, the process is not
\* ended by them: unless interrupted it reaches the end of the roster and
\* writes the final output, in which every failing row has its one degraded
\* row.
C8_FailuresNeverAbort ==
    <>( /\ pc \in {"done", "error"}
        /\ outExists
        /\ Len(output) = RosterLen
        /\ \A i \in RosterIdx :
             /\ output[i + 1].sample_id = SampleId(i)
             /\ RowFailed(i) => Degraded(output[i + 1], i) )

\* C8 witness: a run has finished in which a search failed, a first works
\* page failed and a later works page failed
C8_Witness ==
    /\ pc = "done"
    /\ \E i \in RosterIdx : searchResp[i] = "absent"
    /\ \E i \in RosterIdx :
         searchResp[i] = "found" /\ worksSrv[i].failPage = 1
    /\ \E i \in RosterIdx :
         /\ searchResp[i] = "found"
         /\ worksSrv[i].failPage = 2
         /\ output[i + 1].match_quality = "good"

\* C9: a roster row is pending, then searched, then (only when an author
\* was found) fetched, and ends in exactly one record of quality not_found,
\* found_no_works or good; a row without author gets the not_found record
\* without any works request; openalex_found is False exactly in the
\* not_found records.
C9_RowStateMachine ==
    /\ \A k \in 1 .. Len(results) :
         /\ results[k].match_quality \in {"not_found", "found_no_works", "good"}
         /\ ~results[k].openalex_found <=> results[k].match_quality = "not_found"
    /\ \A i \in Processed :
         /\ appended[i] = 1
         /\ searches[i] = 1
         /\ results[i + 1].match_quality = "not_found" <=> searchResp[i] = "absent"
         /\ results[i + 1].match_quality = "not_found" <=> worksReqs[i] = 0
    /\ (pc = "loop" /\ idx < RosterLen) =>
         searches[idx] = 0 /\ worksReqs[idx] = 0 /\ appended[idx] = 0
    /\ pc = "searched" =>
         searches[idx] = 1 /\ worksReqs[idx] = 0 /\ appended[idx] = 0
    /\ pc \in {"fetch", "fetched"} =>
         /\ author_data # NoAuthor
         /\ searches[idx] = 1
         /\ appended[idx] = 0
         /\ pc = "fetched" => worksReqs[idx] >= 1

\* C9 witness: one run has recorded a row of each of the three qualities
C9_Witness ==
    /\ pc = "loop"
    /\ start_idx = 0
    /\ idx >= 3
    /\ Qualities(results) = {"not_found", "found_no_works", "good"}

\* C10: a search that fails (timeout, non-2xx, malformed payload) or finds
\* nobody gives None, does not end the process (which ends in an error only
\* after the roster, in the summary) and is not retried: the row gets the
\* not_found record and one search request was issued for every processed
\* roster row.
C10_ResolutionFailure ==
    /\ pc = "error" => idx = RosterLen /\ outExists
    /\ (pc = "searched" /\ response \in SearchFailures) =>
         author_data = NoAuthor /\ searches[idx] = 1
    /\ (pc = "loop" /\ idx > start_idx /\ response \in SearchFailures) =>
         /\ results[idx].match_quality = "not_found"
         /\ ~results[idx].openalex_found
         /\ results[idx].sample_id = SampleId(idx - 1)
         /\ worksReqs[idx - 1] = 0
    /\ \A i \in Processed : searches[i] = 1

\* C10 witness: a search that timed out has been recorded as not found
\* after a search with a malformed payload was, and the run goes on
C10_Witness ==
    /\ pc = "loop"
    /\ idx >= start_idx + 2
    /\ idx < RosterLen
    /\ response = "timeout"
    /\ results[idx].match_quality = "not_found"
    /\ results[idx - 1].match_quality = "not_found"
    /\ searches[idx - 1] = 1

\* the request of page failPage of a works server that serves full pages
\* is issued, and fails
PageFails(srv) ==
    /\ srv.failPage >= 1
    /\ srv.shortPage = 0
    /\ (srv.failPage - 1) * per_page < Min(srv.count, srv.actual)

\* the dicts of the works of the pages 1 .. p-1 of such a server
PagesBefore(srv, p) ==
    IngestAll([k \in 1 .. ((p - 1) * per_page) |-> RawWork(k)])

\* the row carries the Metrics Row m: every field of m with its value
CarriesMetrics(row, m) ==
    \A f \in DOMAIN m : f \in DOMAIN row /\ row[f] = m[f]

\* C11 as stated: when the request of page p fails, fetch_all_works issues
\* no further page request for the author and returns the works of the
\* pages 1 .. p-1, and the row of the researcher carries the Metrics Row
\* computed from that list.
C11_PartialMetricsRow ==
    /\ (pc \in {"fetch", "fetched"} /\ PageFails(worksSrv[idx])) =>
         /\ worksReqs[idx] <= worksSrv[idx].failPage
         /\ pc = "fetch" => worksReqs[idx] < worksSrv[idx].failPage
         /\ pc = "fetched" =>
              all_works = PagesBefore(worksSrv[idx], worksSrv[idx].failPage)
    /\ \A i \in Processed :
         (searchResp[i] = "found" /\ PageFails(worksSrv[i])) =>
             /\ worksReqs[i] = worksSrv[i].failPage
             /\ CarriesMetrics(results[i + 1],
                    calculate_metrics(
                        PagesBefore(worksSrv[i], worksSrv[i].failPage)))

\* C11 amended: when the request of page p fails, fetch_all_works issues no
\* further page request for the author and returns the works of the pages
\* 1 .. p-1; for p >= 2 the row of the researcher is the Metrics Row
\* computed from that list, of quality good, and for p = 1 the list is empty
\* and the row is the found_no_works record, for which no Metrics Row is
\* computed.
C11_PartialListRow ==
    /\ (pc \in {"fetch", "fetched"} /\ PageFails(worksSrv[idx])) =>
         /\ worksReqs[idx] <= worksSrv[idx].failPage
         /\ pc = "fetch" => worksReqs[idx] < worksSrv[idx].failPage
         /\ pc = "fetched" =>
              all_works = PagesBefore(worksSrv[idx], worksSrv[idx].failPage)
    /\ \A i \in Processed :
         (searchResp[i] = "found" /\ PageFails(worksSrv[i])) =>
             LET partial == PagesBefore(worksSrv[i], worksSrv[i].failPage)
             IN  /\ worksReqs[i] = worksSrv[i].failPage
                 /\ IF worksSrv[i].failPage = 1
                    THEN /\ partial = << >>
                         /\ results[i + 1] = NoWorksRow(i, SampleId(i))
                    ELSE /\ Len(partial) = (worksSrv[i].failPage - 1) * per_page
                         /\ results[i + 1].match_quality = "good"
                         /\ results[i + 1].total_works = Len(partial)
                         /\ CarriesMetrics(results[i + 1],
                                           calculate_metrics(partial))

\* C11 witness: one run has recorded a researcher whose second works page
\* failed, with the works of the first page, after one whose first page
\* failed
C11_Witness ==
    /\ pc = "loop"
    /\ \E i, j \in Processed :
         /\ i < j
         /\ searchResp[i] = "found" /\ worksSrv[i].failPage = 1
         /\ searchResp[j] = "found" /\ worksSrv[j].failPage = 2
         /\ results[j + 1].match_quality = "good"
         /\ results[j + 1].total_works = per_page
         /\ worksReqs[j] = 2

\* C12: a researcher whose author was found and has no works at all gets an
\* output row with openalex_found = True, total_works = 0 and the quality
\* found_no_works, which is not the row of a researcher that was not found.
C12_ZeroWorksRow ==
    Finished =>
        \A i \in RosterIdx :
            (searchResp[i] = "found" /\ worksSrv[i].actual = 0) =>
                /\ output[i + 1].openalex_found
                /\ output[i + 1].match_quality = "found_no_works"
                /\ "total_works" \in DOMAIN output[i + 1]
                /\ output[i + 1].total_works = 0
                /\ output[i + 1] # DataFrame(<< NotFoundRow(i) >>)[1]

\* the pages it takes to reach a reported total of c by page index
PagesFor(c) ==
    IF c <= per_page THEN 1 ELSE (c + per_page - 1) \div per_page

ServedInFull(srv, reqs) ==
    /\ srv.failPage \notin 1 .. reqs
    /\ srv.shortPage \notin 1 .. reqs

\* C14 as stated: against a works server that reports the total T,
\* fetch_all_works never returns more than T items, and it returns exactly
\* T items when the server serves its pages, none failing or short, until
\* it has no more to serve.
C14_ItemCount ==
    pc = "fetched" =>
        /\ Len(all_works) <= worksSrv[0].count
        /\ ( /\ ServedInFull(worksSrv[0], worksReqs[0])
             /\ worksSrv[0].actual = worksSrv[0].count )
           => Len(all_works) = worksSrv[0].count

\* C15 as stated: no request failing, fetch_all_works goes on to the next
\* page until a page comes back empty or the items accumulated reach the
\* total the server reports; it does not stop before, while it holds fewer
\* items than that total and the last page had items.
C15_StopsOnItemCount ==
    /\ ( /\ pc = "fetched"
         /\ worksSrv[0].failPage \notin 1 .. worksReqs[0] )
       => \/ PageResults(worksSrv[0], page) = << >>
          \/ Len(all_works) >= worksSrv[0].count
    /\ (pc = "fetch" /\ worksReqs[0] >= 1)
       => /\ PageResults(worksSrv[0], page - 1) # << >>
          /\ Len(all_works) < worksSrv[0].count

\* C15: no request failing, fetch_all_works goes on to the next page until
\* a page comes back empty or the index of the page times the page size
\* reaches the total the server reports; it does not stop before, and while
\* every page served is full that product is the number of items it holds.
C15_StopsOnPageIndex ==
    /\ ( /\ pc = "fetched"
         /\ worksSrv[0].failPage \notin 1 .. worksReqs[0] )
       => \/ PageResults(worksSrv[0], page) = << >>
          \/ page * per_page >= worksSrv[0].count
    /\ (pc = "fetch" /\ worksReqs[0] >= 1)
       => /\ PageResults(worksSrv[0], page - 1) # << >>
          /\ (page - 1) * per_page < worksSrv[0].count
          /\ Len(all_works) <= (page - 1) * per_page
    /\ ( /\ pc = "fetched"
         /\ ServedInFull(worksSrv[0], worksReqs[0])
         /\ worksSrv[0].actual >= page * per_page )
       => Len(all_works) = page * per_page

\* C15 witness: a call has ended, no request having failed, after a page
\* that was short but not empty: the last page had items and fewer items
\* than the reported total are held
C15_Witness ==
    /\ pc = "fetched"
    /\ worksSrv[0].failPage = 0
    /\ worksSrv[0].shortPage \in 1 .. worksReqs[0]
    /\ worksSrv[0].shortLen >= 1
    /\ worksReqs[0] >= 2
    /\ PageResults(worksSrv[0], page) # << >>
    /\ Len(all_works) < worksSrv[0].count
    /\ Len(all_works) >= 1

\* C16: the delay DELAY_BETWEEN_REQUESTS is slept exactly once after the
\* processing of each roster row, whether the row ended as not found, as
\* found without works or aggregated, and before the first request of the
\* next row; no delay is slept for a row before its processing has ended.
C16_OneDelayPerRow ==
    \A i \in RosterIdx :
        /\ (start_idx <= i /\ i < idx) => sleeps[i] = 1
        /\ i >= idx => sleeps[i] = 0
        /\ (searches[i] >= 1 /\ i > start_idx) => sleeps[i - 1] = 1

\* C16 witness: in one run a row has ended as not found, one as found
\* without works and one aggregated, and the first request of the row after
\* each of them has been made
C16_Witness ==
    /\ \E i \in RosterIdx : /\ start_idx <= i /\ i + 1 < RosterLen
                            /\ searches[i + 1] >= 1
                            /\ results[i + 1].match_quality = "not_found"
    /\ \E i \in RosterIdx : /\ start_idx <= i /\ i + 1 < RosterLen
                            /\ searches[i + 1] >= 1
                            /\ results[i + 1].match_quality = "found_no_works"
    /\ \E i \in RosterIdx : /\ start_idx <= i /\ i + 1 < RosterLen
                            /\ searches[i + 1] >= 1
                            /\ results[i + 1].match_quality = "good"

\* two characters are the same letter, whatever their case
SameLetter(a, b) ==
    \/ a = b
    \/ \E n \in 1 .. Len(UpperCase) :
         {a, b} = {UpperCase[n], LowerCase[n]}

\* variant v occurs in the text at position i, whatever the case
OccursAt(text, v, i) ==
    /\ i + Len(v) - 1 <= Len(text)
    /\ \A j \in 1 .. Len(v) : SameLetter(text[i + j - 1], v[j])

\* the text contains a variant of the g-th declared group
HasVariantOf(text, g) ==
    \E n \in 1 .. Len(PUBLISHER_GROUPS[g].variants) :
        \E i \in 1 .. Len(text) :
            OccursAt(text, PUBLISHER_GROUPS[g].variants[n], i)

\* the groups of which the text contains a variant
GroupsIn(text) ==
    { g \in 1 .. Len(PUBLISHER_GROUPS) : HasVariantOf(text, g) }

\* C17 as stated: for every publisher name that contains a variant of
\* group G, in whatever case, classify_publisher returns G; for a
\* non-empty name that contains no variant it returns 'Other'; for an
\* empty name and for None it returns 'Unknown'.
C17_ClassifierResult ==
    pc = "classified" =>
        /\ \A g \in GroupsIn(publisher_name) :
             publisher_group = PUBLISHER_GROUPS[g].group
        /\ ( /\ publisher_name \notin {NoName, << >>}
             /\ GroupsIn(publisher_name) = {} )
           => publisher_group = "Other"
        /\ publisher_name \in {NoName, << >>} => publisher_group = "Unknown"

\* C17: for every publisher name that contains a variant of group G, in
\* whatever case, and no variant of a group declared before G,
\* classify_publisher returns G; for None, for the empty name and for the
\* name 'Unknown' it returns 'Unknown'; for every other name that contains
\* no variant it returns 'Other'.
C17_ClassifierFirstGroup ==
    pc = "classified" =>
        /\ \A g \in GroupsIn(publisher_name) :
             (\A h \in 1 .. (g - 1) : h \notin GroupsIn(publisher_name))
             => publisher_group = PUBLISHER_GROUPS[g].group
        /\ ( /\ publisher_name \notin {NoName, << >>, UnknownName}
             /\ GroupsIn(publisher_name) = {} )
           => publisher_group = "Other"
        /\ publisher_name \in {NoName, << >>, UnknownName}
           => publisher_group = "Unknown"

\* C17 witness: a name written with capital letters that contains variants
\* of more than one group has been classified as one of them
C17_Witness ==
    /\ pc = "classified"
    /\ publisher_name # lower(publisher_name)
    /\ \E g, h \in GroupsIn(publisher_name) :
         /\ g # h
         /\ publisher_group = PUBLISHER_GROUPS[g].group

\* the first position at which the text has a variant of the g-th group
FirstPos(text, g) ==
    CHOOSE i \in 1 .. Len(text) :
        /\ \E n \in 1 .. Len(PUBLISHER_GROUPS[g].variants) :
             OccursAt(text, PUBLISHER_GROUPS[g].variants[n], i)
        /\ \A k \in 1 .. (i - 1) :
             \A n \in 1 .. Len(PUBLISHER_GROUPS[g].variants) :
                 ~OccursAt(text, PUBLISHER_GROUPS[g].variants[n], k)

\* C18: when a publisher name contains variants of two or more groups,
\* classify_publisher returns the one of these groups that PUBLISHER_GROUPS
\* declares first, wherever in the name the variants stand.
C18_FirstDeclaredWins ==
    (pc = "classified" /\ Cardinality(GroupsIn(publisher_name)) >= 2) =>
        \E g \in GroupsIn(publisher_name) :
            /\ publisher_group = PUBLISHER_GROUPS[g].group
            /\ \A h \in GroupsIn(publisher_name) : g <= h

\* C18 witness: the name classified has the variant of a group declared
\* later standing before the variant of the group that was returned
C18_Witness ==
    /\ pc = "classified"
    /\ \E g, h \in GroupsIn(publisher_name) :
         /\ g < h
         /\ publisher_group = PUBLISHER_GROUPS[g].group
         /\ FirstPos(publisher_name, h) < FirstPos(publisher_name, g)

\* C19 as stated: for every work list the Metrics Row of calculate_metrics
\* has books_count + articles_count = total_works and
\* books_pct = books_count / total_works * 100, or 0 when total_works is 0,
\* the empty list included.
C19_CountIdentity ==
    pc = "calculated" =>
        /\ {"total_works", "books_count", "articles_count", "books_pct"}
             \subseteq DOMAIN metrics
        /\ metrics.total_works = Len(all_works)
        /\ metrics.books_count + metrics.articles_count = metrics.total_works
        /\ metrics.books_pct * metrics.total_works
             = metrics.books_count * 100 * PctUnit
        /\ metrics.total_works = 0 => metrics.books_pct = 0

\* the percentage fields of a Metrics Row
PctFields ==
    {"books_pct", "oa_pct", "elsevier_pct", "elsevier_citations_pct",
     "wiley_pct", "springer_pct", "oa_publisher_pct"}

\* C20 as stated: when the work list is empty the Metrics Row of
\* calculate_metrics has every percentage field, each with the value 0.
C20_ZeroDenominator ==
    (pc = "calculated" /\ all_works = << >>) =>
        /\ metrics.total_works = 0
        /\ \A f \in PctFields : f \in DOMAIN metrics /\ metrics[f] = 0

RECURSIVE CitedBy(_, _)
\* the citations of the works of the list at the positions in S, taken
\* from the work objects the server holds
CitedBy(works, S) ==
    IF S = {} THEN 0
    ELSE LET k == CHOOSE x \in S : TRUE
         IN  RawWork(works[k].work_id).cited_by_count
               + CitedBy(works, S \ {k})

\* the positions of the works whose type is one of the four book types
BookPositions(works) ==
    { k \in 1 .. Len(works) :
        RawWork(works[k].work_id).type
          \in {"book", "book-chapter", "monograph", "edited-book"} }

\* the positions of the works whose publisher name has a variant of the
\* group Elsevier, which is declared first
ElsevierPositions(works) ==
    { k \in 1 .. Len(works) :
        /\ PUBLISHER_GROUPS[1].group = "Elsevier"
        /\ HasVariantOf(RawWork(works[k].work_id).host_organization_name, 1) }

\* C21: for every non-empty list of fetched works the Metrics Row has
\* total_works = the number of works, total_citations = the sum of their
\* cited_by_count, books_count = the number of works of a book type, and
\* elsevier_count and elsevier_citations = the number and the citation sum
\* of the works whose publisher classifies as Elsevier, so that neither
\* exceeds its total.
C21_MetricsFold ==
    (pc = "calculated" /\ all_works # << >>) =>
        /\ metrics.total_works = Len(all_works)
        /\ metrics.total_citations = CitedBy(all_works, 1 .. Len(all_works))
        /\ metrics.books_count = Cardinality(BookPositions(all_works))
        /\ metrics.elsevier_count = Cardinality(ElsevierPositions(all_works))
        /\ metrics.elsevier_citations
             = CitedBy(all_works, ElsevierPositions(all_works))
        /\ metrics.elsevier_count <= metrics.total_works
        /\ metrics.elsevier_citations <= metrics.total_citations

\* C21 witness: the Metrics Row of a list of several works, some of them
\* books and some but not all of them of Elsevier, with citations of both
C21_Witness ==
    /\ pc = "calculated"
    /\ Len(all_works) >= 3
    /\ metrics.books_count >= 1
    /\ metrics.books_count < metrics.total_works
    /\ metrics.elsevier_count >= 1
    /\ metrics.elsevier_count < metrics.total_works
    /\ metrics.elsevier_citations >= 1
    /\ metrics.elsevier_citations < metrics.total_citations

\* the count fields of a Metrics Row
CountFields ==
    {"total_works", "total_citations", "books_count", "articles_count",
     "oa_count", "elsevier_count", "wiley_count", "springer_count",
     "plos_count", "frontiers_count", "oa_publisher_count"}

\* C22 as stated: the output row of a roster name whose search gives no
\* result has openalex_found = False and every count field equal to zero.
C22_NotFoundRowZero ==
    outExists =>
        \A i \in RosterIdx :
            (i < Len(output) /\ searchResp[i] = "absent") =>
                /\ output[i + 1].openalex_found = FALSE
                /\ \A f \in CountFields :
                     f \in DOMAIN output[i + 1] /\ output[i + 1][f] = 0

MetInput(i) ==
    /\ i \in Inputs(script)
    /\ IF script = "sample" THEN program.pc # "start"
       ELSE program.i > i \/ (program.i = i /\ program.pc # "start")

\* C24 as stated: once the run has met an input roster file that is
\* missing or lacks a required column, it goes no further than that input
\* and does not finish, and it has issued no request.
C24_FatalBeforeNetwork ==
    \A i \in 1 .. n_replicates :
        (MetInput(i) /\ program.roster_files[i] \in {"missing", "malformed"})
        => /\ program.pc # "finished"
           /\ script = "replicate" => program.i = i
           /\ program.net_requests = 0

FirstPageFails(srv) == srv.failPage = 1 /\ srv.actual >= 1

\* the author of the server has no indexed works and no request fails
TrulyEmpty(srv) == srv.actual = 0 /\ srv.count = 0 /\ srv.failPage = 0

\* the publications count of a row that has one
Publications(row) ==
    IF "openalex_pubs" \in DOMAIN row THEN row.openalex_pubs
    ELSE row.total_works

\* C30: when the request of the first works page of a resolved author
\* fails, one request is made, fetch_all_works returns the empty list and
\* the row appended is the found_no_works record, with openalex_found =
\* True and zero publications; apart from the identifiers of the researcher
\* it is the row of an author who has no indexed works.
C30_FirstPageFailureAsEmpty ==
    /\ (pc = "fetched" /\ searchResp[idx] = "found"
        /\ FirstPageFails(worksSrv[idx])) =>
           all_works = << >> /\ worksReqs[idx] = 1
    /\ \A i \in Processed :
         (searchResp[i] = "found" /\ FirstPageFails(worksSrv[i])) =>
             /\ results[i + 1].match_quality = "found_no_works"
             /\ results[i + 1].openalex_found
             /\ Publications(results[i + 1]) = 0
             /\ \A j \in Processed :
                  (searchResp[j] = "found" /\ TrulyEmpty(worksSrv[j])) =>
                      results[i + 1] =
                          [results[j + 1] EXCEPT
                              !.sample_id = results[i + 1].sample_id,
                              !.openalex_id = results[i + 1].openalex_id]

\* C30 witness: one run has recorded an author whose first works page
\* failed and an author without works
C30_Witness ==
    \E i, j \in Processed :
        /\ searchResp[i] = "found" /\ FirstPageFails(worksSrv[i])
        /\ searchResp[j] = "found" /\ TrulyEmpty(worksSrv[j])
        /\ worksReqs[i] = 1
        /\ results[i + 1].match_quality = "found_no_works"
        /\ results[j + 1].match_quality = "found_no_works"

\* the entries of the list that are at least h
AtLeast(list, h) == { k \in 1 .. Len(list) : list[k] >= h }

\* the list taken in the order perm
Reordered(list, perm) == [k \in 1 .. Len(list) |-> list[perm[k]]]

\* C28: calculate_h_index returns the largest h such that at least h
\* entries of the list are >= h, 0 for the empty list; it returns the same
\* for every order of the list, and 0 <= h <= len(list).
C28_HIndex ==
    (script = "fetch_all_550" /\ pc = "returned") =>
        /\ call.h_index \in 0 .. Len(call.citations_list)
        /\ Cardinality(AtLeast(call.citations_list, call.h_index)) >= call.h_index
        /\ \A g \in (call.h_index + 1) .. Len(call.citations_list) :
               Cardinality(AtLeast(call.citations_list, g)) < g
        /\ call.citations_list = << >> => call.h_index = 0
        /\ \A perm \in Permutations(1 .. Len(call.citations_list)) :
               calculate_h_index(Reordered(call.citations_list, perm)) = call.h_index

\* C28 witness: the h-index of an unsorted list whose h is neither 0 nor
\* its length, with an entry equal to h
C28_Witness ==
    /\ script = "fetch_all_550"
    /\ pc = "returned"
    /\ Len(call.citations_list) >= 3
    /\ call.h_index = 2
    /\ call.citations_list[1] < call.citations_list[2]
    /\ call.citations_list[2] = 2
    /\ call.citations_list[3] > 2

\* the works of the response for which the author is at one of the places
CitesWhere(P(_)) ==
    LET works == call.works_response.results
        RECURSIVE SumOver(_)
        SumOver(k) ==
            IF k = 0 THEN 0
            ELSE SumOver(k - 1)
                 + (IF P(works[k].authorships)
                    THEN works[k].cited_by_count ELSE 0)
    IN  SumOver(Len(works))

IsSole(a) == Len(a) = 1 /\ a[1] = Me
IsSoleOrFirst(a) == Len(a) >= 1 /\ a[1] = Me
IsSoleFirstOrLast(a) ==
    /\ Len(a) >= 1
    /\ \/ a[1] = Me
       \/ a[Len(a)] = Me /\ \A k \in 1 .. (Len(a) - 1) : a[k] # Me
AnyWork(a) == TRUE

\* C29: the metrics fetch_author_metrics returns satisfy ncs <= ncsf <=
\* ncsfl <= nc; ncs is the citations of the works whose one author is the
\* author, ncsf of those where the author is sole or first, ncsfl of those
\* where the author is sole, first or last, and nc of all the works, those
\* on which the author is not found included.
C29_PositionTotals ==
    (pc = "returned" /\ call.metrics # NoMetrics) =>
        /\ call.metrics.ncs <= call.metrics.ncsf
        /\ call.metrics.ncsf <= call.metrics.ncsfl
        /\ call.metrics.ncsfl <= call.metrics.nc
        /\ call.metrics.ncs = CitesWhere(IsSole)
        /\ call.metrics.ncsf = CitesWhere(IsSoleOrFirst)
        /\ call.metrics.ncsfl = CitesWhere(IsSoleFirstOrLast)
        /\ call.metrics.nc = CitesWhere(AnyWork)

\* C29 witness: metrics of a list with a cited work of someone else alone,
\* a cited work the author is last on and a cited work the author is sole
\* author of
C29_Witness ==
    /\ pc = "returned"
    /\ call.metrics # NoMetrics
    /\ \E k \in 1 .. Len(call.works_response.results) :
         /\ call.works_response.results[k].authorships = << Coauthor >>
         /\ call.works_response.results[k].cited_by_count > 0
    /\ 0 < call.metrics.ncs
    /\ call.metrics.ncs = call.metrics.ncsf
    /\ call.metrics.ncsf < call.metrics.ncsfl
    /\ call.metrics.ncsfl < call.metrics.nc

\* C26: a researcher whose metrics a run of fetch_all_550_researchers.py
\* has fetched is not lost by an interruption: once a run has gone past the
\* researcher's row, the row is in existing_data or in the results file, and
\* when a run has finished it is in the results file.
C26_NoResultLost ==
    \A i \in program.fetched_ok :
        /\ (program.pc \in {"loop", "fetch", "store"} /\ i < program.idx) =>
               MatchedId(i) \in IdsOf(program.existing_data)
        /\ program.pc \in {"cleanup", "finished"} =>
               MatchedId(i) \in IdsOf(program.output_file)

\* the commands started so far are the first steps of main, each once and
\* in the order of the script
InStepOrder ==
    /\ Len(program.steps_started) <= Len(Steps)
    /\ program.steps_started = SubSeq(Steps, 1, Len(program.steps_started))

\* C27: when the verification step fails, main returns 1 and starts none of
\* the later steps; when it succeeds, the statistical analysis, Figures 1-3
\* and Figure 4 are each run once, in that order, whether or not an earlier
\* one of them failed, and main returns 0 if and only if every step
\* succeeded.
C27_StepOrderAndExitCode ==
    /\ InStepOrder
    /\ program.pc = "returned" =>
         IF Completed(program.tool_outcomes["verify"])
         THEN /\ program.steps_started = Steps
              /\ program.exit_code \in {0, 1}
              /\ program.exit_code = 0 <=>
                   \A k \in 1 .. Len(Steps) :
                       Completed(program.tool_outcomes[Steps[k]])
         ELSE /\ program.steps_started = << "verify" >>
              /\ program.exit_code = 1

\* C27 witness: main has returned 1 after a run in which the verification
\* succeeded, the analysis failed, Rscript was not found and Figure 4 was
\* made
C27_Witness ==
    /\ program.pc = "returned"
    /\ program.tool_outcomes["verify"] = "ok"
    /\ program.tool_outcomes["analysis"] = "nonzero"
    /\ program.tool_outcomes["figures_1_3"] = "not_found"
    /\ program.tool_outcomes["figure_4"] = "ok"
    /\ program.steps_started = Steps
    /\ program.exit_code = 1

====
